---- MODULE Spec2Model ----
(***************************************************************************)
(* Movement resolution and adversary AI of MinaAdventureGame (src/game.js). *)
(*                                                                         *)
(* Fixed-point units used throughout:                                      *)
(*   length   1 = 0.01 world unit                                          *)
(*   time     1 = 1/3 second                                               *)
(*   alert    1 = 1/30 alert level                                         *)
(* A normalised diagonal direction has components 1/sqrt(2), in fixed      *)
(* point 7071/10000; the components of a displacement are kept to the      *)
(* nearest half world unit.                                                *)
(***************************************************************************)
EXTENDS Integers, Naturals, Sequences, FiniteSets, TLC

VARIABLES mina, sacha, obstacles, scenario, onlyPush,
          monsters, gameState, tickDelta, ticks, observed, raised,
          treasures, rideActive

vars == <<mina, sacha, obstacles, scenario, onlyPush,
          monsters, gameState, tickDelta, ticks, observed, raised,
          treasures, rideActive>>

(***************************************************************************)
(* Bounds of the model.                                                    *)
(***************************************************************************)
\* Mina's x stays within [-ArenaX, ArenaX] and her z within [-ArenaZ, ArenaZ]
\* (guard of the movement tick).
ArenaX == 350

ArenaZ == 500

\* Elapsed times per movement tick (1/3 s and 2/3 s).
MoveDeltaTimes == {1, 2}

\* Number of updateMonsters ticks explored.
MaxTicks == 4

\* Elapsed times per adversary tick (5/3 s and 5 s).
AiDeltaTimes == {5, 15}

\* Offsets (cos, sin)(angle) * searchRadius of the search circle.
Orbits == {[x |-> 500, y |-> 0, z |-> 0], [x |-> 0, y |-> 0, z |-> 500]}

\* Values of the presentation bob  sin(time * 10) * 0.03  (line 4377).
Bobs == {-3, 3}

(***************************************************************************)
(* Vectors and boxes (THREE.Vector3, THREE.Box3).                          *)
(***************************************************************************)
Vec(x, y, z) == [x |-> x, y |-> y, z |-> z]

Add(a, b) == Vec(a.x + b.x, a.y + b.y, a.z + b.z)

\* Box3.setFromCenterAndSize: the box spans center -/+ size/2.
SetFromCenterAndSize(center, size) ==
    [min |-> Vec(center.x - size.x \div 2, center.y - size.y \div 2, center.z - size.z \div 2),
     max |-> Vec(center.x + size.x \div 2, center.y + size.y \div 2, center.z + size.z \div 2)]

\* Box3.intersectsBox: touching faces count as intersecting.
IntersectsBox(a, b) ==
    ~ (\/ b.max.x < a.min.x \/ b.min.x > a.max.x
       \/ b.max.y < a.min.y \/ b.min.y > a.max.y
       \/ b.max.z < a.min.z \/ b.min.z > a.max.z)

\* createBlock: a collidable cube centred at (x, y, z); its bounding box is
\* what Box3.setFromObject yields for the (never moving) cube.
createBlock(x, y, z, width, height, depth) ==
    SetFromCenterAndSize(Vec(x, y, z), Vec(width, height, depth))

(***************************************************************************)
(* Player movement.                                                        *)
(***************************************************************************)
\* this.minaSpeed = 15 world units per second = 500 per time unit.
minaSpeed == 500

\* Mina's collision bounds (passed as the SIZE of her box).
minaBounds == Vec(50, 180, 50)

\* Resting height 1.35 of both characters.
restY == 135

\* null: an agent not created, a lastSeenTarget cleared (a record, to be
\* comparable with the records it stands in for).
Null == [null |-> TRUE]

\* The companion as createSacha builds it, facing +z; band records the branch
\* of updateSachaMovement that ran last.
createSacha(pos) == [position |-> pos, facing |-> [x |-> 0, z |-> 1], band |-> "init"]

Controls == [forward : BOOLEAN, backward : BOOLEAN, left : BOOLEAN,
             right : BOOLEAN, run : BOOLEAN]

checkCollision(newPosition, objs) ==
    LET minaBox == SetFromCenterAndSize(newPosition, minaBounds)
    IN  \E obj \in objs : IntersectsBox(minaBox, obj)

\* A direction sum whose test of the forward key is inverted.
DirectionInvertedForward(c) ==
    [x |-> (IF c.right THEN 1 ELSE 0) - (IF c.left THEN 1 ELSE 0),
     z |-> (IF c.backward THEN 1 ELSE 0) - (IF ~ c.forward THEN 1 ELSE 0)]

\* direction: forward = -Z, backward = +Z, left = -X, right = +X.
Direction(c) ==
    [x |-> (IF c.right THEN 1 ELSE 0) - (IF c.left THEN 1 ELSE 0),
     z |-> (IF c.backward THEN 1 ELSE 0) - (IF c.forward THEN 1 ELSE 0)]

\* A length rounded to the nearest half world unit.
Round(len) == ((len + 25) \div 50) * 50

\* The components of a vector of length len along a normalised direction
\* with horizontal signs d (direction.normalize().multiplyScalar(len)).
Scaled(d, len) ==
    LET l == IF d.x # 0 /\ d.z # 0 THEN Round((len * 7071) \div 10000)
             ELSE Round(len)
    IN  Vec(d.x * l, 0, d.z * l)

\* movement = direction.normalize().multiplyScalar(speed * deltaTime)
Movement(c, deltaTime) ==
    LET speed == IF c.run THEN (minaSpeed * 3) \div 2 ELSE minaSpeed
    IN  Scaled(Direction(c), speed * deltaTime)

Sign(n) == IF n > 0 THEN 1 ELSE IF n < 0 THEN -1 ELSE 0

\* Orientation after lookAt(position + v): the horizontal direction of v.
LookDir(v) == [x |-> Sign(v.x), z |-> Sign(v.z)]

\* A resolver that never tests the X-only candidate before applying it.
ResolveUntestedSlide(m, movement, objs) ==
    LET newPosition   == Add(m.position, movement)
        xOnlyMovement == Vec(movement.x, 0, 0)
        xOnlyPosition == Add(m.position, xOnlyMovement)
    IN  IF ~ checkCollision(newPosition, objs)
        THEN [m EXCEPT !.position = newPosition, !.facing = LookDir(movement),
                       !.resolved = "full"]
        ELSE [m EXCEPT !.position = xOnlyPosition,
                       !.facing = IF movement.x # 0 THEN LookDir(xOnlyMovement) ELSE @,
                       !.resolved = "xonly"]

\* A resolver that tries the Z-only slide before the X-only slide.
ResolveZFirst(m, movement, objs) ==
    LET newPosition   == Add(m.position, movement)
        xOnlyMovement == Vec(movement.x, 0, 0)
        xOnlyPosition == Add(m.position, xOnlyMovement)
        zOnlyMovement == Vec(0, 0, movement.z)
        zOnlyPosition == Add(m.position, zOnlyMovement)
    IN  IF ~ checkCollision(newPosition, objs)
        THEN [m EXCEPT !.position = newPosition, !.facing = LookDir(movement),
                       !.resolved = "full"]
        ELSE IF ~ checkCollision(zOnlyPosition, objs)
        THEN [m EXCEPT !.position = zOnlyPosition,
                       !.facing = IF movement.z # 0 THEN LookDir(zOnlyMovement) ELSE @,
                       !.resolved = "zonly"]
        ELSE IF ~ checkCollision(xOnlyPosition, objs)
        THEN [m EXCEPT !.position = xOnlyPosition,
                       !.facing = IF movement.x # 0 THEN LookDir(xOnlyMovement) ELSE @,
                       !.resolved = "xonly"]
        ELSE [m EXCEPT !.resolved = "blocked"]

\* A resolver that applies the Z-only slide without testing it.
ResolveUntestedZ(m, movement, objs) ==
    LET newPosition   == Add(m.position, movement)
        xOnlyMovement == Vec(movement.x, 0, 0)
        xOnlyPosition == Add(m.position, xOnlyMovement)
        zOnlyMovement == Vec(0, 0, movement.z)
        zOnlyPosition == Add(m.position, zOnlyMovement)
    IN  IF ~ checkCollision(newPosition, objs)
        THEN [m EXCEPT !.position = newPosition, !.facing = LookDir(movement),
                       !.resolved = "full"]
        ELSE IF ~ checkCollision(xOnlyPosition, objs)
        THEN [m EXCEPT !.position = xOnlyPosition,
                       !.facing = IF movement.x # 0 THEN LookDir(xOnlyMovement) ELSE @,
                       !.resolved = "xonly"]
        ELSE [m EXCEPT !.position = zOnlyPosition,
                       !.facing = IF movement.z # 0 THEN LookDir(zOnlyMovement) ELSE @,
                       !.resolved = "zonly"]

\* A resolver with the collision test switched off.
ResolveNoCollision(m, movement, objs) ==
    [m EXCEPT !.position = Add(m.position, movement), !.facing = LookDir(movement),
              !.resolved = "full"]

\* The fallback of updateMinaMovement: full move, else X-only, else Z-only,
\* else stay.  movement is non-zero here (direction.length() > 0).
Resolve(m, movement, objs) ==
    LET newPosition   == Add(m.position, movement)
        xOnlyMovement == Vec(movement.x, 0, 0)
        xOnlyPosition == Add(m.position, xOnlyMovement)
        zOnlyMovement == Vec(0, 0, movement.z)
        zOnlyPosition == Add(m.position, zOnlyMovement)
    IN  IF ~ checkCollision(newPosition, objs)
        THEN [m EXCEPT !.position = newPosition, !.facing = LookDir(movement),
                       !.resolved = "full"]
        ELSE IF ~ checkCollision(xOnlyPosition, objs)
        THEN [m EXCEPT !.position = xOnlyPosition,
                       !.facing = IF movement.x # 0 THEN LookDir(xOnlyMovement) ELSE @,
                       !.resolved = "xonly"]
        ELSE IF ~ checkCollision(zOnlyPosition, objs)
        THEN [m EXCEPT !.position = zOnlyPosition,
                       !.facing = IF movement.z # 0 THEN LookDir(zOnlyMovement) ELSE @,
                       !.resolved = "zonly"]
        ELSE [m EXCEPT !.resolved = "blocked"]

\* The positions updateMinaMovement hands to checkCollision: each is built
\* from this.mina.position.clone(), whose y is whatever the last tick left.
Candidates(m, movement) ==
    { Add(m.position, movement),
      Add(m.position, Vec(movement.x, 0, 0)),
      Add(m.position, Vec(0, 0, movement.z)) }

\* Mina after updateMinaMovement(deltaTime) with the controls c; bob is the
\* value of sin(time * 10) * 0.03 at this call.
MinaStep(m, c, deltaTime, bob, objs) ==
    LET d == Direction(c)
    IN  IF d.x # 0 \/ d.z # 0
        THEN LET r == Resolve(m, Movement(c, deltaTime), objs)
             IN  [r EXCEPT !.position.y = restY + bob]
        ELSE [m EXCEPT !.resolved = "idle"]

InArena(p) == p.x \in -ArenaX..ArenaX /\ p.z \in -ArenaZ..ArenaZ

\* The displacement (0, 0, 5) of the box-avoidance scenario: walking
\* backward (+Z) for one time unit.
IsPush(c, deltaTime) ==
    /\ Movement(c, deltaTime) = Vec(0, 0, 500)

\* updateMinaMovement with its safety check: without the player it returns.
MinaUpdate(m, c, deltaTime, bob, objs) ==
    IF m = Null THEN m ELSE MinaStep(m, c, deltaTime, bob, objs)

updateMinaMovement(c, deltaTime, bob) ==
    /\ mina' = MinaUpdate(mina, c, deltaTime, bob, obstacles)
    /\ mina' = Null \/ InArena(mina'.position)
    /\ onlyPush' = (onlyPush /\ IsPush(c, deltaTime))
    /\ UNCHANGED <<sacha, obstacles, scenario, monsters, gameState, tickDelta, ticks, observed, raised,
                   treasures, rideActive>>

(***************************************************************************)
(* Adversary AI.                                                           *)
(***************************************************************************)
\* gameState.health = 100, in units of 1/18 so that the contact damage
\* (10 + alertLevel * 5) * deltaTime is the integer (60 + alert) * time.
initialHealth == 1800

\* gameState.totalTreasures = 5
totalTreasures == 5

\* gameOverCalls counts the invocations of gameOver().
InitialGameState ==
    [health |-> initialHealth, monstersNearby |-> 0, treasuresFound |-> 0,
     gameOver |-> FALSE, gameWon |-> FALSE, gameOverCalls |-> 0]

\* The collected flags of the treasures as placeTreasures leaves them.
NoTreasure == [k \in 1..totalTreasures |-> FALSE]

\* detectionRadius: 15
detectionRadius == 1500

\* The chase band detectionRadius * 0.8.
chaseRadius == (detectionRadius * 8) \div 10

\* maxRange of checkLineOfSight: 30
maxRange == 3000

\* alertRadius of alertNearbyMonsters: 25
alertRadius == 2500

\* Contact distance of "monster caught player": 2
contactRadius == 200

\* monster.userData.searchTime = 5 (seconds)
searchDuration == 15

\* Arrival distance 2 of monsterSearch and searchRadius 5 of its circling.
searchArrival == 200

searchRadius == 500

\* Ring radius 15 of the patrol waypoints and their arrival distance 3.
patrolRadius == 1500

patrolArrival == 300

Sub(a, b) == Vec(a.x - b.x, a.y - b.y, a.z - b.z)

\* Square of a.distanceTo(b); distances are compared through their squares.
DistSq(a, b) ==
    (a.x - b.x) * (a.x - b.x) + (a.y - b.y) * (a.y - b.y) + (a.z - b.z) * (a.z - b.z)

Abs(n) == IF n < 0 THEN -n ELSE n

Min(a, b) == IF a < b THEN a ELSE b

Max(a, b) == IF a > b THEN a ELSE b

RECURSIVE SqrtIter(_, _)
SqrtIter(n, x) ==
    LET y == (x + n \div x) \div 2
    IN  IF y >= x THEN x ELSE SqrtIter(n, y)

\* Vector3.length(): the integer square root.
ISqrt(n) == IF n = 0 THEN 0
            ELSE SqrtIter(n, IF n >= 40000 THEN n \div 200 ELSE 200)

\* subVectors(to, from).normalize().multiplyScalar(len): normalize() leaves
\* the zero vector as it is.
Toward(from, to, len) ==
    LET d == Sub(to, from)
        l == ISqrt(DistSq(to, from))
        comp(v) == Sign(v) * Round((len * Abs(v)) \div l)
    IN  IF l = 0 THEN Vec(0, 0, 0) ELSE Vec(comp(d.x), comp(d.y), comp(d.z))

\* checkLineOfSight: distance below maxRange, no occlusion test.
checkLineOfSight(from, to) == DistSq(from, to) < maxRange * maxRange

\* Lines 4767-4786 where only a patrolling adversary is promoted to chasing.
DecideChaseFromPatrolOnly(m, target, targetDistSq, dt) ==
    IF targetDistSq < detectionRadius * detectionRadius
    THEN IF /\ checkLineOfSight(m.position, target)
            /\ targetDistSq < chaseRadius * chaseRadius
            /\ m.aiState \in {"patrolling", "chasing"}
         THEN [m EXCEPT !.aiState = "chasing",
                        !.lastSeenTarget = target,
                        !.alertLevel = Min(@ + 10 * dt, 90)]
         ELSE IF m.aiState # "chasing"
              THEN [m EXCEPT !.aiState = "alerted",
                             !.alertLevel = Min(@ + 5 * dt, 60)]
              ELSE m
    ELSE IF m.aiState = "chasing" /\ m.lastSeenTarget # Null
         THEN [m EXCEPT !.aiState = "searching", !.searchTime = searchDuration]
         ELSE m

\* Lines 4767-4786 where the alerted band is entered only from searching.
DecideNoAlertFromPatrol(m, target, targetDistSq, dt) ==
    IF targetDistSq < detectionRadius * detectionRadius
    THEN IF checkLineOfSight(m.position, target) /\ targetDistSq < chaseRadius * chaseRadius
         THEN [m EXCEPT !.aiState = "chasing",
                        !.lastSeenTarget = target,
                        !.alertLevel = Min(@ + 10 * dt, 90)]
         ELSE IF m.aiState \notin {"chasing", "patrolling"}
              THEN [m EXCEPT !.aiState = "alerted",
                             !.alertLevel = Min(@ + 5 * dt, 60)]
              ELSE m
    ELSE IF m.aiState = "chasing" /\ m.lastSeenTarget # Null
         THEN [m EXCEPT !.aiState = "searching", !.searchTime = searchDuration]
         ELSE m

\* Lines 4767-4786 where a lost target sends the adversary back to patrol.
DecideLostToPatrol(m, target, targetDistSq, dt) ==
    IF targetDistSq < detectionRadius * detectionRadius
    THEN IF checkLineOfSight(m.position, target) /\ targetDistSq < chaseRadius * chaseRadius
         THEN [m EXCEPT !.aiState = "chasing",
                        !.lastSeenTarget = target,
                        !.alertLevel = Min(@ + 10 * dt, 90)]
         ELSE IF m.aiState # "chasing"
              THEN [m EXCEPT !.aiState = "alerted",
                             !.alertLevel = Min(@ + 5 * dt, 60)]
              ELSE m
    ELSE IF m.aiState = "chasing" /\ m.lastSeenTarget # Null
         THEN [m EXCEPT !.aiState = "patrolling", !.lastSeenTarget = Null]
         ELSE m

\* Lines 4767-4786 without the cap of the alertLevel of a chasing adversary.
DecideUncapped(m, target, targetDistSq, dt) ==
    IF targetDistSq < detectionRadius * detectionRadius
    THEN IF checkLineOfSight(m.position, target) /\ targetDistSq < chaseRadius * chaseRadius
         THEN [m EXCEPT !.aiState = "chasing",
                        !.lastSeenTarget = target,
                        !.alertLevel = @ + 10 * dt]
         ELSE IF m.aiState # "chasing"
              THEN [m EXCEPT !.aiState = "alerted",
                             !.alertLevel = Min(@ + 5 * dt, 60)]
              ELSE m
    ELSE IF m.aiState = "chasing" /\ m.lastSeenTarget # Null
         THEN [m EXCEPT !.aiState = "searching", !.searchTime = searchDuration]
         ELSE m

\* "Update AI state based on distance and line of sight" (lines 4767-4786);
\* target is the position of the nearer character.
Decide(m, target, targetDistSq, dt) ==
    IF targetDistSq < detectionRadius * detectionRadius
    THEN IF checkLineOfSight(m.position, target) /\ targetDistSq < chaseRadius * chaseRadius
         THEN [m EXCEPT !.aiState = "chasing",
                        !.lastSeenTarget = target,
                        !.alertLevel = Min(@ + 10 * dt, 90)]
         ELSE IF m.aiState # "chasing"
              THEN [m EXCEPT !.aiState = "alerted",
                             !.alertLevel = Min(@ + 5 * dt, 60)]
              ELSE m
    ELSE IF m.aiState = "chasing" /\ m.lastSeenTarget # Null
         THEN [m EXCEPT !.aiState = "searching", !.searchTime = searchDuration]
         ELSE m

\* monsterChase; no character carries a userData.velocity, so the predicted
\* position is the target's position.  speed * (1 + alertLevel * 0.3).
monsterChase(m, target, dt) ==
    LET chaseSpeed == (m.speed * (100 + m.alertLevel)) \div 100
    IN  [m EXCEPT !.position = Add(@, Toward(@, target, chaseSpeed * dt)),
                  !.lastSeenTarget = target]

\* monsterSearch that gives the search up one comparison too late
\* (searchTime >= 0).
monsterSearchLate(m, dt, orbit) ==
    LET t == m.searchTime - dt
        n == [m EXCEPT !.searchTime = t]
    IN  IF t >= 0 /\ m.lastSeenTarget # Null
        THEN [n EXCEPT !.position = Add(@, Toward(@, m.lastSeenTarget, ((m.speed * 7) \div 10) * dt))]
        ELSE [n EXCEPT !.aiState = "patrolling", !.lastSeenTarget = Null]

\* A search that gives up without clearing lastSeenTarget.
monsterSearchKeepsTarget(m, dt, orbit) ==
    LET t == m.searchTime - dt
        n == [m EXCEPT !.searchTime = t]
    IN  IF t > 0 /\ m.lastSeenTarget # Null
        THEN IF DistSq(m.lastSeenTarget, m.position) > searchArrival * searchArrival
             THEN [n EXCEPT !.position =
                       Add(@, Toward(@, m.lastSeenTarget, ((m.speed * 7) \div 10) * dt))]
             ELSE [n EXCEPT !.position =
                       Add(@, Toward(@, Add(m.lastSeenTarget, orbit), (m.speed \div 2) * dt))]
        ELSE [n EXCEPT !.aiState = "patrolling"]

\* monsterSearch; orbit is the offset (cos, sin)(time * 2 + id) * searchRadius.
monsterSearch(m, dt, orbit) ==
    LET t == m.searchTime - dt
        n == [m EXCEPT !.searchTime = t]
    IN  IF t > 0 /\ m.lastSeenTarget # Null
        THEN IF DistSq(m.lastSeenTarget, m.position) > searchArrival * searchArrival
             THEN [n EXCEPT !.position =
                       Add(@, Toward(@, m.lastSeenTarget, ((m.speed * 7) \div 10) * dt))]
             ELSE [n EXCEPT !.position =
                       Add(@, Toward(@, Add(m.lastSeenTarget, orbit), (m.speed \div 2) * dt))]
        ELSE [n EXCEPT !.aiState = "patrolling", !.lastSeenTarget = Null]

monsterAlerted(m, target, dt) ==
    [m EXCEPT !.position = Add(@, Toward(@, target, ((m.speed * 6) \div 10) * dt))]

\* The four waypoints ringed around the spawn position (angles i/4 * 2 pi).
Waypoints(spawnPos) ==
    << Add(spawnPos, Vec(patrolRadius, 0, 0)), Add(spawnPos, Vec(0, 0, patrolRadius)),
       Add(spawnPos, Vec(-patrolRadius, 0, 0)), Add(spawnPos, Vec(0, 0, -patrolRadius)) >>

\* A patrol that rebuilds its waypoints around the current position in
\* every tick.
monsterPatrolRegenerates(m, dt) ==
    LET n  == [m EXCEPT !.patrolWaypoints = Waypoints(m.position),
                        !.currentWaypoint = IF m.patrolWaypoints = << >> THEN 0 ELSE @]
        wp == n.patrolWaypoints[n.currentWaypoint + 1]
    IN  IF DistSq(wp, n.position) < patrolArrival * patrolArrival
        THEN [n EXCEPT !.currentWaypoint = (@ + 1) % Len(n.patrolWaypoints)]
        ELSE [n EXCEPT !.position = Add(@, Toward(@, wp, ((n.speed * 4) \div 10) * dt))]

\* monsterPatrol; currentWaypoint counts from 0 as in the source.
monsterPatrol(m, dt) ==
    LET n  == IF m.patrolWaypoints = << >>
              THEN [m EXCEPT !.patrolWaypoints = Waypoints(m.spawnPosition),
                             !.currentWaypoint = 0]
              ELSE m
        wp == n.patrolWaypoints[n.currentWaypoint + 1]
    IN  IF DistSq(wp, n.position) < patrolArrival * patrolArrival
        THEN [n EXCEPT !.currentWaypoint = (@ + 1) % Len(n.patrolWaypoints)]
        ELSE [n EXCEPT !.position = Add(@, Toward(@, wp, ((n.speed * 4) \div 10) * dt))]

\* The switch of lines 4789-4803.
Behave(m, target, dt, orbit) ==
    CASE m.aiState = "chasing"   -> monsterChase(m, target, dt)
      [] m.aiState = "searching" -> monsterSearch(m, dt, orbit)
      [] m.aiState = "alerted"   -> monsterAlerted(m, target, dt)
      [] OTHER                   -> monsterPatrol(m, dt)

\* alertNearbyMonsters that raises the alertLevel of the patrolling
\* adversaries around and leaves them patrolling.
alertNearbyMonstersKeepState(ms, alertingIndex, targetPosition) ==
    [k \in 1..Len(ms) |->
        IF /\ k # alertingIndex
           /\ DistSq(ms[alertingIndex].position, ms[k].position) < alertRadius * alertRadius
           /\ ms[k].aiState = "patrolling"
        THEN [ms[k] EXCEPT !.lastSeenTarget = targetPosition,
                           !.alertLevel = 30]
        ELSE ms[k]]

\* alertNearbyMonsters that reaches only the adversaries later in the list.
alertNearbyMonstersLaterOnly(ms, alertingIndex, targetPosition) ==
    [k \in 1..Len(ms) |->
        IF /\ k > alertingIndex
           /\ DistSq(ms[alertingIndex].position, ms[k].position) < alertRadius * alertRadius
           /\ ms[k].aiState = "patrolling"
        THEN [ms[k] EXCEPT !.aiState = "alerted",
                           !.lastSeenTarget = targetPosition,
                           !.alertLevel = 30]
        ELSE ms[k]]

\* alertNearbyMonsters that promotes the patrolling adversaries around
\* without handing them the target position.
alertNearbyMonstersNoSeed(ms, alertingIndex, targetPosition) ==
    [k \in 1..Len(ms) |->
        IF /\ k # alertingIndex
           /\ DistSq(ms[alertingIndex].position, ms[k].position) < alertRadius * alertRadius
           /\ ms[k].aiState = "patrolling"
        THEN [ms[k] EXCEPT !.aiState = "alerted",
                           !.alertLevel = 30]
        ELSE ms[k]]

alertNearbyMonsters(ms, alertingIndex, targetPosition) ==
    [k \in 1..Len(ms) |->
        IF /\ k # alertingIndex
           /\ DistSq(ms[alertingIndex].position, ms[k].position) < alertRadius * alertRadius
           /\ ms[k].aiState = "patrolling"
        THEN [ms[k] EXCEPT !.aiState = "alerted",
                           !.lastSeenTarget = targetPosition,
                           !.alertLevel = 30]
        ELSE ms[k]]

\* animateMonster: the height sway of an alerted or patrolling adversary
\* (at most 0.1) is below the resolution of lengths, so it rests at originalY.
animateMonster(m) ==
    IF m.aiState \in {"chasing", "searching"} THEN m
    ELSE [m EXCEPT !.position.y = m.originalY]

\* The body of the forEach where the alertLevel of a chasing adversary decays
\* too.
MonsterBodyDecaysChasers(i, ms, gs, minaPos, sachaPos, dt, orbit) ==
    LET m0           == ms[i]
        dMina        == DistSq(m0.position, minaPos)
        dSacha       == DistSq(m0.position, sachaPos)
        target       == IF dMina < dSacha THEN minaPos ELSE sachaPos
        targetDistSq == Min(dMina, dSacha)
        nearby       == targetDistSq < detectionRadius * detectionRadius
        m1           == Decide(m0, target, targetDistSq, dt)
        m2           == Behave(m1, target, dt, orbit)
        ms2          == [ms EXCEPT ![i] = m2]
        ms3          == IF m2.aiState \in {"chasing", "alerted"}
                        THEN alertNearbyMonsters(ms2, i, target)
                        ELSE ms2
        caught       == targetDistSq < contactRadius * contactRadius
        health       == IF caught THEN gs.health - (60 + m2.alertLevel) * dt
                        ELSE gs.health
        m4           == animateMonster(ms3[i])
        m5           == IF m4.aiState # "alerted"
                        THEN [m4 EXCEPT !.alertLevel = Max(@ - 3 * dt, 0)]
                        ELSE m4
    IN  [monsters  |-> [ms3 EXCEPT ![i] = m5],
         gameState |-> [gs EXCEPT !.health = health,
                                  !.monstersNearby = IF nearby THEN @ + 1 ELSE @,
                                  !.gameOver = @ \/ (caught /\ health <= 0),
                                  !.gameOverCalls =
                                      IF caught /\ health <= 0 THEN @ + 1 ELSE @]]

\* The body of the forEach where the contact damage is taken from the
\* alertLevel the adversary had when the tick began.
MonsterBodyDamageBeforeAlert(i, ms, gs, minaPos, sachaPos, dt, orbit) ==
    LET m0           == ms[i]
        dMina        == DistSq(m0.position, minaPos)
        dSacha       == DistSq(m0.position, sachaPos)
        target       == IF dMina < dSacha THEN minaPos ELSE sachaPos
        targetDistSq == Min(dMina, dSacha)
        nearby       == targetDistSq < detectionRadius * detectionRadius
        m1           == Decide(m0, target, targetDistSq, dt)
        m2           == Behave(m1, target, dt, orbit)
        ms2          == [ms EXCEPT ![i] = m2]
        ms3          == IF m2.aiState \in {"chasing", "alerted"}
                        THEN alertNearbyMonsters(ms2, i, target)
                        ELSE ms2
        caught       == targetDistSq < contactRadius * contactRadius
        health       == IF caught THEN gs.health - (60 + m0.alertLevel) * dt
                        ELSE gs.health
        m4           == animateMonster(ms3[i])
        m5           == IF m4.aiState \notin {"chasing", "alerted"}
                        THEN [m4 EXCEPT !.alertLevel = Max(@ - 3 * dt, 0)]
                        ELSE m4
    IN  [monsters  |-> [ms3 EXCEPT ![i] = m5],
         gameState |-> [gs EXCEPT !.health = health,
                                  !.monstersNearby = IF nearby THEN @ + 1 ELSE @,
                                  !.gameOver = @ \/ (caught /\ health <= 0),
                                  !.gameOverCalls =
                                      IF caught /\ health <= 0 THEN @ + 1 ELSE @]]

\* The body of the forEach of updateMonsters for the adversary at index i
\* (1-based here), on the adversaries ms and the game state gs.
MonsterBody(i, ms, gs, minaPos, sachaPos, dt, orbit) ==
    LET m0           == ms[i]
        dMina        == DistSq(m0.position, minaPos)
        dSacha       == DistSq(m0.position, sachaPos)
        target       == IF dMina < dSacha THEN minaPos ELSE sachaPos
        targetDistSq == Min(dMina, dSacha)
        nearby       == targetDistSq < detectionRadius * detectionRadius
        m1           == Decide(m0, target, targetDistSq, dt)
        m2           == Behave(m1, target, dt, orbit)
        ms2          == [ms EXCEPT ![i] = m2]
        ms3          == IF m2.aiState \in {"chasing", "alerted"}
                        THEN alertNearbyMonsters(ms2, i, target)
                        ELSE ms2
        caught       == targetDistSq < contactRadius * contactRadius
        health       == IF caught THEN gs.health - (60 + m2.alertLevel) * dt
                        ELSE gs.health
        m4           == animateMonster(ms3[i])
        m5           == IF m4.aiState \notin {"chasing", "alerted"}
                        THEN [m4 EXCEPT !.alertLevel = Max(@ - 3 * dt, 0)]
                        ELSE m4
    IN  [monsters  |-> [ms3 EXCEPT ![i] = m5],
         gameState |-> [gs EXCEPT !.health = health,
                                  !.monstersNearby = IF nearby THEN @ + 1 ELSE @,
                                  !.gameOver = @ \/ (caught /\ health <= 0),
                                  !.gameOverCalls =
                                      IF caught /\ health <= 0 THEN @ + 1 ELSE @]]

RECURSIVE ForEachMonster(_, _, _, _, _, _, _)
ForEachMonster(i, ms, gs, minaPos, sachaPos, dt, orbit) ==
    IF i > Len(ms) THEN [monsters |-> ms, gameState |-> gs]
    ELSE LET r == MonsterBody(i, ms, gs, minaPos, sachaPos, dt, orbit)
         IN  ForEachMonster(i + 1, r.monsters, r.gameState, minaPos, sachaPos, dt, orbit)

\* History of the last tick for one adversary: the state and the alertLevel
\* it started the tick with, the squared distance to its nearest target, and
\* the elapsed time accumulated over the ticks since it last started a tick
\* outside searching.
Observe(m, o, minaPos, sachaPos, dt) ==
    [from         |-> m.aiState,
     alert        |-> m.alertLevel,
     targetDistSq |-> Min(DistSq(m.position, minaPos), DistSq(m.position, sachaPos)),
     elapsed      |-> IF m.aiState = "searching" THEN o.elapsed + dt ELSE dt]

\* updateMonsters has no check for a missing agent: with an adversary in the
\* list, reading the position of a player or companion that is null raises a
\* TypeError in the first iteration of the forEach (lines 4753-4754).
MonstersRaise(ms, m, s) == ms # << >> /\ (m = Null \/ s = Null)

\* updateMonsters(deltaTime) with the player m and the companion s:
\* monstersNearby is reset, then the forEach runs or raises.
MonstersUpdate(m, s, dt, orbit) ==
    IF MonstersRaise(monsters, m, s)
    THEN /\ monsters' = monsters
         /\ gameState' = [gameState EXCEPT !.monstersNearby = 0]
         /\ raised' = TRUE
         /\ observed' = observed
    ELSE /\ LET r == ForEachMonster(1, monsters, [gameState EXCEPT !.monstersNearby = 0],
                                    m.position, s.position, dt, orbit)
            IN  /\ monsters' = r.monsters
                /\ gameState' = r.gameState
         /\ raised' = raised
         /\ observed' = [i \in 1..Len(monsters) |->
                            Observe(monsters[i], observed[i], m.position, s.position, dt)]

\* updateMonsters(deltaTime) as animate calls it: not once the game is over
\* or won.
updateMonsters(dt, orbit) ==
    /\ ticks < MaxTicks
    /\ ~ gameState.gameOver /\ ~ gameState.gameWon
    /\ MonstersUpdate(mina, sacha, dt, orbit)
    /\ tickDelta' = dt
    /\ ticks' = ticks + 1
    /\ UNCHANGED <<mina, sacha, obstacles, scenario, onlyPush, treasures, rideActive>>

\* The player and companion controllers (or a ride, an interior) have put the
\* two characters at new positions before the adversaries are updated.
TargetsMove(place) ==
    /\ ticks < MaxTicks
    /\ ~ gameState.gameOver /\ ~ gameState.gameWon
    /\ <<mina.position, sacha.position>> # <<place.mina, place.sacha>>
    /\ mina' = [mina EXCEPT !.position = place.mina]
    /\ sacha' = [sacha EXCEPT !.position = place.sacha]
    /\ UNCHANGED <<obstacles, scenario, onlyPush, monsters, gameState, tickDelta, ticks, observed, raised,
                   treasures, rideActive>>

\* An adversary as spawnMonsters creates it; speed is 3 + random * 2 world
\* units per second, 100 to 166 in the units of the model.
SpawnMonster(index, x, z, speed) ==
    [id |-> index, position |-> Vec(x, 0, z), speed |-> speed,
     originalY |-> 0, spawnPosition |-> Vec(x, 0, z),
     aiState |-> "patrolling", lastSeenTarget |-> Null, searchTime |-> 0,
     alertLevel |-> 0, patrolWaypoints |-> << >>, currentWaypoint |-> 0]

\* Where the two characters can stand, seen from the spawn point (-70, 10)
\* of the first adversary: next to it, in its chase band, in its alerted
\* band, at their starting positions out of reach, the companion nearer than
\* the player, and beyond the second adversary.
TargetPlaces ==
    { [mina |-> Vec(-7100, restY, 1000),  sacha |-> Vec(-7400, restY, 1000)],
      [mina |-> Vec(-7900, restY, 1000),  sacha |-> Vec(-8200, restY, 1000)],
      [mina |-> Vec(-8350, restY, 1000),  sacha |-> Vec(-8650, restY, 1000)],
      [mina |-> Vec(0, restY, 8000),      sacha |-> Vec(-300, restY, 8000)],
      [mina |-> Vec(0, restY, 8000),      sacha |-> Vec(-8350, restY, 1300)],
      [mina |-> Vec(-4100, restY, 1000),  sacha |-> Vec(-3800, restY, 1000)] }

\* The first adversary as spawned at (-70, 10); the second, spawned at
\* (-70, -70), has wandered to 20 units from the first and patrols again.
\* The characters are at their starting positions.
InitAI ==
    /\ scenario = "park"
    /\ obstacles = {}
    /\ mina = [position |-> Vec(0, restY, 8000), facing |-> [x |-> 0, z |-> 1],
               resolved |-> "init"]
    /\ sacha = createSacha(Vec(-300, restY, 8000))
    /\ onlyPush = FALSE
    /\ monsters = << SpawnMonster(0, -7000, 1000, 150),
                     [SpawnMonster(1, -7000, -7000, 100) EXCEPT
                         !.position = Vec(-5000, 0, 1000),
                         !.patrolWaypoints = Waypoints(Vec(-7000, 0, -7000))] >>
    /\ gameState = InitialGameState
    /\ tickDelta = 0
    /\ ticks = 0
    /\ raised = FALSE
    /\ treasures = NoTreasure
    /\ rideActive = FALSE
    /\ observed = [i \in 1..Len(monsters) |->
                      [from |-> "patrolling", alert |-> 0, targetDistSq |-> 0, elapsed |-> 0]]

NextAI ==
    \/ \E place \in TargetPlaces : TargetsMove(place)
    \/ \E dt \in AiDeltaTimes, orbit \in Orbits : updateMonsters(dt, orbit)

SpecAI == InitAI /\ [][NextAI]_vars

(***************************************************************************)
(* Pack scenario: three adversaries spawned within 25 units of each other. *)
(***************************************************************************)
PackSpawns == << Vec(-7000, 0, 1000), Vec(-5200, 0, 1000), Vec(-6500, 0, 1800) >>

\* The orders in which spawnMonsters can list the three spawn points.
PackOrders == { <<1, 2, 3>>, <<2, 3, 1>>, <<3, 1, 2>> }

\* The characters at their starting positions, and with the player in the
\* alerted band or in the chase band of the first spawn point only.
PackPlaces ==
    { [mina |-> Vec(0, restY, 8000),      sacha |-> Vec(-300, restY, 8000)],
      [mina |-> Vec(-8350, restY, 1000),  sacha |-> Vec(-8650, restY, 1000)],
      [mina |-> Vec(-7900, restY, 1000),  sacha |-> Vec(-8200, restY, 1000)] }

InitPack ==
    /\ scenario = "pack"
    /\ obstacles = {}
    /\ mina = [position |-> Vec(0, restY, 8000), facing |-> [x |-> 0, z |-> 1],
               resolved |-> "init"]
    /\ sacha = createSacha(Vec(-300, restY, 8000))
    /\ onlyPush = FALSE
    /\ \E order \in PackOrders :
           monsters = [k \in 1..3 |->
                          SpawnMonster(k - 1, PackSpawns[order[k]].x, PackSpawns[order[k]].z, 100)]
    /\ gameState = InitialGameState
    /\ tickDelta = 0
    /\ ticks = 0
    /\ raised = FALSE
    /\ treasures = NoTreasure
    /\ rideActive = FALSE
    /\ observed = [i \in 1..Len(monsters) |->
                      [from |-> "patrolling", alert |-> 0, targetDistSq |-> 0, elapsed |-> 0]]

NextPack ==
    \/ \E place \in PackPlaces : TargetsMove(place)
    \/ \E dt \in AiDeltaTimes, orbit \in Orbits : updateMonsters(dt, orbit)

SpecPack == InitPack /\ [][NextPack]_vars

(***************************************************************************)
(* Contact scenario: two engaged adversaries next to the characters.       *)
(***************************************************************************)
\* Elapsed times per tick of the contact scenario (1 s and 5 s).
ContactDeltaTimes == {3, 15}

\* alertLevel 1 and 2.
ContactAlertLevels == {30, 60}

\* An adversary that has been alerted for a while at position pos.
EngagedMonster(index, spawn, pos, alert) ==
    [SpawnMonster(index, spawn.x, spawn.z, 100) EXCEPT
        !.position = pos, !.aiState = "alerted", !.alertLevel = alert,
        !.patrolWaypoints = Waypoints(spawn)]

\* Both characters in contact (one with each adversary), only the player in
\* contact, both in the alerted band.
ContactPlaces ==
    { [mina |-> Vec(-7100, restY, 1000),  sacha |-> Vec(-6500, restY, 1000)],
      [mina |-> Vec(-7100, restY, 1000),  sacha |-> Vec(-7400, restY, 1000)],
      [mina |-> Vec(-8350, restY, 1000),  sacha |-> Vec(-8650, restY, 1000)] }

InitContact ==
    /\ scenario = "contact"
    /\ obstacles = {}
    /\ mina = [position |-> Vec(-8350, restY, 1000), facing |-> [x |-> 0, z |-> 1],
               resolved |-> "init"]
    /\ sacha = createSacha(Vec(-8650, restY, 1000))
    /\ onlyPush = FALSE
    /\ \E a \in ContactAlertLevels :
           monsters = << EngagedMonster(0, Vec(-7000, 0, 1000), Vec(-7000, 0, 1000), a),
                         EngagedMonster(1, Vec(-7000, 0, -7000), Vec(-6600, 0, 1000), a) >>
    /\ gameState = InitialGameState
    /\ tickDelta = 0
    /\ ticks = 0
    /\ raised = FALSE
    /\ treasures = NoTreasure
    /\ rideActive = FALSE
    /\ observed = [i \in 1..Len(monsters) |->
                      [from |-> "alerted", alert |-> monsters[i].alertLevel,
                       targetDistSq |-> 0, elapsed |-> 0]]

NextContact ==
    \/ \E place \in ContactPlaces : TargetsMove(place)
    \/ \E dt \in ContactDeltaTimes, orbit \in Orbits : updateMonsters(dt, orbit)

SpecContact == InitContact /\ [][NextContact]_vars

(***************************************************************************)
(* Companion.                                                              *)
(***************************************************************************)
\* sacha.userData.followDistance = 2.5
followDistance == 250

\* The catch-up band begins at followDistance + 5.
catchupMargin == 500

\* sacha.userData.catchupSpeed = 18 and walkSpeed = 15 world units per second.
catchupSpeed == 600

walkSpeed == 500

sachaBounds == Vec(50, 180, 50)

\* The inline collision test of updateSachaMovement.
SachaCanMove(newPosition, objs) ==
    LET sachaBox == SetFromCenterAndSize(newPosition, sachaBounds)
    IN  \A obj \in objs : ~ IntersectsBox(sachaBox, obj)

\* A moving branch that tries the Z-only slide before the X-only slide.
FollowZFirst(s, minaPos, len, y, objs, band) ==
    LET movement      == Toward(s.position, minaPos, len)
        newPosition   == Add(s.position, movement)
        xOnlyMovement == Vec(movement.x, 0, 0)
        xOnlyPosition == Add(s.position, xOnlyMovement)
        zOnlyMovement == Vec(0, 0, movement.z)
        zOnlyPosition == Add(s.position, zOnlyMovement)
        moved ==
            IF SachaCanMove(newPosition, objs)
            THEN [s EXCEPT !.position = newPosition,
                           !.facing = LookDir(Sub(minaPos, newPosition))]
            ELSE IF SachaCanMove(zOnlyPosition, objs)
            THEN [s EXCEPT !.position = zOnlyPosition,
                           !.facing = IF movement.z # 0 THEN LookDir(zOnlyMovement) ELSE @]
            ELSE IF SachaCanMove(xOnlyPosition, objs)
            THEN [s EXCEPT !.position = xOnlyPosition,
                           !.facing = IF movement.x # 0 THEN LookDir(xOnlyMovement) ELSE @]
            ELSE s
    IN  [moved EXCEPT !.position.y = y, !.band = band]

\* One moving branch of updateSachaMovement: full move, X-only slide, Z-only
\* slide, or no move; then the bounce written into position.y.
Follow(s, minaPos, len, y, objs, band) ==
    LET movement      == Toward(s.position, minaPos, len)
        newPosition   == Add(s.position, movement)
        xOnlyMovement == Vec(movement.x, 0, 0)
        xOnlyPosition == Add(s.position, xOnlyMovement)
        zOnlyMovement == Vec(0, 0, movement.z)
        zOnlyPosition == Add(s.position, zOnlyMovement)
        moved ==
            IF SachaCanMove(newPosition, objs)
            THEN [s EXCEPT !.position = newPosition,
                           !.facing = LookDir(Sub(minaPos, newPosition))]
            ELSE IF SachaCanMove(xOnlyPosition, objs)
            THEN [s EXCEPT !.position = xOnlyPosition,
                           !.facing = IF movement.x # 0 THEN LookDir(xOnlyMovement) ELSE @]
            ELSE IF SachaCanMove(zOnlyPosition, objs)
            THEN [s EXCEPT !.position = zOnlyPosition,
                           !.facing = IF movement.z # 0 THEN LookDir(zOnlyMovement) ELSE @]
            ELSE s
    IN  [moved EXCEPT !.position.y = y, !.band = band]

\* updateSachaMovement where the walking band moves at the catch-up speed.
SachaStepAlwaysRuns(s, minaPos, deltaTime, bob, glance, objs) ==
    LET distSq == DistSq(s.position, minaPos)
    IN  IF distSq > followDistance * followDistance
        THEN Follow(s, minaPos, catchupSpeed * deltaTime, restY + 5 * bob, objs, "catchup")
        ELSE [s EXCEPT !.position.y = restY + bob,
                       !.facing = IF glance THEN LookDir(Sub(minaPos, s.position)) ELSE @,
                       !.band = "idle"]

\* updateSachaMovement with both agents present.  bob is the sign of the
\* bounce (amplitudes 0.05, 0.03, 0.01); glance tells whether the idle branch
\* turns the companion to the player (sin(time * 0.5) > 0.8).
SachaStep(s, minaPos, deltaTime, bob, glance, objs) ==
    LET distSq == DistSq(s.position, minaPos)
        far    == followDistance + catchupMargin
    IN  IF distSq > far * far
        THEN Follow(s, minaPos, catchupSpeed * deltaTime, restY + 5 * bob, objs, "catchup")
        ELSE IF distSq > followDistance * followDistance
        THEN Follow(s, minaPos, walkSpeed * deltaTime, restY + 3 * bob, objs, "walk")
        ELSE [s EXCEPT !.position.y = restY + bob,
                       !.facing = IF glance THEN LookDir(Sub(minaPos, s.position)) ELSE @,
                       !.band = "idle"]

\* updateSachaMovement with its first line: without the companion or without
\* the player it returns.
SachaUpdate(s, m, deltaTime, bob, glance, objs) ==
    IF s = Null \/ m = Null THEN s
    ELSE SachaStep(s, m.position, deltaTime, bob, glance, objs)

updateSachaMovement(deltaTime, bob, glance) ==
    /\ sacha' = SachaUpdate(sacha, mina, deltaTime, bob, glance, obstacles)
    /\ UNCHANGED <<mina, obstacles, scenario, onlyPush, monsters, gameState, tickDelta,
                   ticks, observed, raised,
                   treasures, rideActive>>

\* The player controller has brought the player to another place.
MinaMoves(pos) ==
    /\ mina.position # pos
    /\ mina' = [mina EXCEPT !.position = pos]
    /\ UNCHANGED <<sacha, obstacles, scenario, onlyPush, monsters, gameState, tickDelta,
                   ticks, observed, raised,
                   treasures, rideActive>>

\* Signs of the companion's bounce.
SachaBobs == {-1, 1}

\* Places of the player around a pillar that stands between her and the
\* companion's starting position.
FollowPlaces ==
    { Vec(0, restY, 8000), Vec(200, restY + 3, 8100), Vec(900, restY - 3, 8000),
      Vec(600, restY, 8800) }

FollowWorld == {createBlock(400, 200, 8000, 200, 400, 200)}

InitFollow ==
    /\ scenario = "follow"
    /\ obstacles = FollowWorld
    /\ mina = [position |-> Vec(0, restY, 8000), facing |-> [x |-> 0, z |-> 1],
               resolved |-> "init"]
    /\ sacha = createSacha(Vec(-300, restY, 8000))
    /\ onlyPush = FALSE
    /\ monsters = << >>
    /\ gameState = InitialGameState
    /\ tickDelta = 0
    /\ ticks = 0
    /\ raised = FALSE
    /\ treasures = NoTreasure
    /\ rideActive = FALSE
    /\ observed = << >>

NextFollow ==
    \/ \E pos \in FollowPlaces : MinaMoves(pos)
    \/ \E deltaTime \in MoveDeltaTimes, bob \in SachaBobs, glance \in BOOLEAN :
           updateSachaMovement(deltaTime, bob, glance)

SpecFollow == InitFollow /\ [][NextFollow]_vars

(***************************************************************************)
(* Whole frames, with or without the player.  createMina catches whatever  *)
(* createCharacter throws (lines 579-622), so the constructor goes on to   *)
(* createSacha, spawnMonsters and animate with this.mina still null;       *)
(* createSacha catches nothing, so a frame never runs without a companion. *)
(***************************************************************************)
\* The number of frames a behaviour runs.
MaxFrames == 3

\* The keys held during a frame: none, forward, or left while running.
FrameControls ==
    { [forward |-> FALSE, backward |-> FALSE, left |-> FALSE, right |-> FALSE, run |-> FALSE],
      [forward |-> TRUE, backward |-> FALSE, left |-> FALSE, right |-> FALSE, run |-> FALSE],
      [forward |-> FALSE, backward |-> FALSE, left |-> TRUE, right |-> FALSE, run |-> TRUE] }

\* Treasure places with the third chest on the ground instead of 30 units up.
TreasureLocationsGround ==
    << Vec(-8000, 300, -1000), Vec(-8000, 300, 6000), Vec(8000, 300, -8000),
       Vec(-8000, 300, -6000), Vec(8000, 300, 7000) >>

\* The five treasures of placeTreasures; the third one lies on top of the
\* Battlestar Galactica building, 30 units above the ground.
TreasureLocations ==
    << Vec(-8000, 300, -1000), Vec(-8000, 300, 6000), Vec(8000, 3000, -8000),
       Vec(-8000, 300, -6000), Vec(8000, 300, 7000) >>

\* Collection distance 3 of checkTreasureCollection.
collectRadius == 300

\* The collected flags after checkTreasureCollection with the player at pos.
Collected(pos, ts) ==
    [k \in 1..Len(ts) |->
        ts[k] \/ DistSq(pos, TreasureLocations[k]) < collectRadius * collectRadius]

\* checkTreasureCollection on the game state: treasuresFound counts each
\* treasure collected in this call, and gameWon() is called when the count
\* reaches totalTreasures.
checkTreasureCollection(gs, ts, pos) ==
    LET n == Cardinality({k \in 1..Len(ts) : Collected(pos, ts)[k] /\ ~ ts[k]})
    IN  [gs EXCEPT !.treasuresFound = @ + n,
                   !.gameWon = @ \/ (n > 0 /\ gs.treasuresFound + n >= totalTreasures)]

\* The Mummy Adventure Cart waits at (-75, 0, 5); interactionRange is 4.
rideStation == Vec(-7500, 0, 500)

interactionRange == 400

\* updateRideVehicles starts the ride when the player is in range of the
\* free cart with the forward or the run key held.
StartsRide(m, c, active) ==
    /\ ~ active
    /\ DistSq(rideStation, m.position) < interactionRange * interactionRange
    /\ (c.forward \/ c.run)

\* startRideExperience moves both characters onto the cart.
startRideExperience(offsetX) == Vec(rideStation.x + offsetX, rideStation.y + 200, rideStation.z)

\* animate where updateMonsters runs before the player and the companion are
\* moved: the adversaries measure their distances to the positions of the
\* frame before.
animateMonstersFirst(c, deltaTime, bob, sachaBob, glance, orbit) ==
    /\ ticks < MaxFrames
    /\ ticks' = ticks + 1
    /\ IF gameState.gameOver \/ gameState.gameWon
       THEN UNCHANGED <<mina, sacha, obstacles, scenario, onlyPush, monsters, gameState,
                        tickDelta, observed, raised, treasures, rideActive>>
       ELSE LET m == MinaUpdate(mina, c, deltaTime, bob, obstacles)
                s == SachaUpdate(sacha, m, deltaTime, sachaBob, glance, obstacles)
            IN  /\ tickDelta' = deltaTime
                /\ onlyPush' = (onlyPush /\ IsPush(c, deltaTime))
                /\ UNCHANGED <<obstacles, scenario>>
                /\ IF MonstersRaise(monsters, m, s)
                   THEN /\ mina' = m
                        /\ sacha' = s
                        /\ monsters' = monsters
                        /\ gameState' = [gameState EXCEPT !.monstersNearby = 0]
                        /\ raised' = TRUE
                        /\ UNCHANGED <<observed, treasures, rideActive>>
                   ELSE /\ LET r == ForEachMonster(1, monsters,
                                                   [gameState EXCEPT !.monstersNearby = 0],
                                                   mina.position, sacha.position, deltaTime,
                                                   orbit)
                           IN  /\ monsters' = r.monsters
                               /\ gameState' = checkTreasureCollection(r.gameState, treasures,
                                                                       m.position)
                        /\ treasures' = Collected(m.position, treasures)
                        /\ observed' = [i \in 1..Len(monsters) |->
                                           Observe(monsters[i], observed[i], mina.position,
                                                   sacha.position, deltaTime)]
                        /\ raised' = raised
                        /\ rideActive' = (rideActive \/ StartsRide(m, c, rideActive))
                        /\ mina' = IF StartsRide(m, c, rideActive)
                                   THEN [m EXCEPT !.position = startRideExperience(0)]
                                   ELSE m
                        /\ sacha' = IF StartsRide(m, c, rideActive)
                                    THEN [s EXCEPT !.position = startRideExperience(150)]
                                    ELSE s

\* The part of animate that runs while the game is neither over nor won:
\* updateMinaMovement, updateSachaMovement, updateMonsters,
\* checkTreasureCollection and updateRideVehicles, in this order on the same
\* deltaTime.  An exception raised by updateMonsters ends the frame.  Once
\* the game is over or won the frame only draws.
animate(c, deltaTime, bob, sachaBob, glance, orbit) ==
    /\ ticks < MaxFrames
    /\ ticks' = ticks + 1
    /\ IF gameState.gameOver \/ gameState.gameWon
       THEN UNCHANGED <<mina, sacha, obstacles, scenario, onlyPush, monsters, gameState,
                        tickDelta, observed, raised, treasures, rideActive>>
       ELSE LET m == MinaUpdate(mina, c, deltaTime, bob, obstacles)
                s == SachaUpdate(sacha, m, deltaTime, sachaBob, glance, obstacles)
            IN  /\ tickDelta' = deltaTime
                /\ onlyPush' = (onlyPush /\ IsPush(c, deltaTime))
                /\ UNCHANGED <<obstacles, scenario>>
                /\ IF MonstersRaise(monsters, m, s)
                   THEN /\ mina' = m
                        /\ sacha' = s
                        /\ monsters' = monsters
                        /\ gameState' = [gameState EXCEPT !.monstersNearby = 0]
                        /\ raised' = TRUE
                        /\ UNCHANGED <<observed, treasures, rideActive>>
                   ELSE /\ LET r == ForEachMonster(1, monsters,
                                                   [gameState EXCEPT !.monstersNearby = 0],
                                                   m.position, s.position, deltaTime, orbit)
                           IN  /\ monsters' = r.monsters
                               /\ gameState' = checkTreasureCollection(r.gameState, treasures,
                                                                       m.position)
                        /\ treasures' = Collected(m.position, treasures)
                        /\ observed' = [i \in 1..Len(monsters) |->
                                           Observe(monsters[i], observed[i], m.position,
                                                   s.position, deltaTime)]
                        /\ raised' = raised
                        /\ rideActive' = (rideActive \/ StartsRide(m, c, rideActive))
                        /\ mina' = IF StartsRide(m, c, rideActive)
                                   THEN [m EXCEPT !.position = startRideExperience(0)]
                                   ELSE m
                        /\ sacha' = IF StartsRide(m, c, rideActive)
                                    THEN [s EXCEPT !.position = startRideExperience(150)]
                                    ELSE s

\* Where the cart can be when the ride ends: on its ring of radius 15.
RideStops == { Vec(-6000, 0, 500), Vec(-7500, 0, 2000) }

\* The timer of startRideExperience (15 s) calls endRideExperience, which
\* puts the characters down next to the cart, wherever it is then.
endRideExperience(stop) ==
    /\ rideActive
    /\ rideActive' = FALSE
    /\ mina' = [mina EXCEPT !.position = Vec(stop.x, 100, stop.z + 500)]
    /\ sacha' = [sacha EXCEPT !.position = Vec(stop.x + 200, 100, stop.z + 500)]
    /\ UNCHANGED <<obstacles, scenario, onlyPush, monsters, gameState, tickDelta, ticks,
                   observed, raised, treasures>>

\* The adversaries of the first two spawn points, as spawnMonsters leaves them.
SpawnedMonsters ==
    << SpawnMonster(0, -7000, 1000, 150), SpawnMonster(1, -7000, -7000, 100) >>

InitMissing ==
    /\ scenario = "frames"
    /\ obstacles = {}
    /\ \E created \in BOOLEAN :
           mina = IF created
                  THEN [position |-> Vec(0, restY, 8000), facing |-> [x |-> 0, z |-> 1],
                        resolved |-> "init"]
                  ELSE Null
    /\ sacha = createSacha(Vec(-300, restY, 8000))
    /\ onlyPush = FALSE
    /\ monsters = SpawnedMonsters
    /\ gameState = InitialGameState
    /\ tickDelta = 0
    /\ ticks = 0
    /\ raised = FALSE
    /\ treasures = NoTreasure
    /\ rideActive = FALSE
    /\ observed = [i \in 1..Len(monsters) |->
                      [from |-> "patrolling", alert |-> 0, targetDistSq |-> 0, elapsed |-> 0]]

NextMissing ==
    \E c \in FrameControls, deltaTime \in MoveDeltaTimes, bob \in Bobs,
       sachaBob \in SachaBobs, glance \in BOOLEAN, orbit \in Orbits :
        animate(c, deltaTime, bob, sachaBob, glance, orbit)

SpecMissing == InitMissing /\ [][NextMissing]_vars

\* Elapsed times at which a frame can run: every periodic term of the frame
\* (the player's bob, the companion's bounce and glance, the angle of the
\* search circle) is a function of the one clock.getElapsedTime().
FrameTimes ==
    { [bob |-> -3, sachaBob |-> 1,  glance |-> FALSE, orbit |-> [x |-> 500, y |-> 0, z |-> 0]],
      [bob |-> 3,  sachaBob |-> -1, glance |-> TRUE,  orbit |-> [x |-> 0, y |-> 0, z |-> 500]],
      [bob |-> 3,  sachaBob |-> 1,  glance |-> FALSE, orbit |-> [x |-> 0, y |-> 0, z |-> 500]],
      [bob |-> -3, sachaBob |-> -1, glance |-> TRUE,  orbit |-> [x |-> 500, y |-> 0, z |-> 0]] }

(***************************************************************************)
(* Frames in which the player walks up to an adversary or onto a treasure. *)
(***************************************************************************)
\* The player 15 units in front of the first spawn point with the companion
\* behind her; the player 5 units in front of the first treasure.
FrameStarts ==
    { [mina |-> Vec(-7000, restY, 2500),  sacha |-> Vec(-7300, restY, 2800)],
      [mina |-> Vec(-8000, restY, -500),  sacha |-> Vec(-8300, restY, -200)] }

\* The adversaries as in InitAI: the first at its spawn point, the second
\* patrolling again 20 units from it.
InitFrame ==
    /\ scenario = "approach"
    /\ obstacles = {}
    /\ \E start \in FrameStarts :
           /\ mina = [position |-> start.mina, facing |-> [x |-> 0, z |-> 1],
                      resolved |-> "init"]
           /\ sacha = createSacha(start.sacha)
    /\ onlyPush = FALSE
    /\ monsters = << SpawnMonster(0, -7000, 1000, 150),
                     [SpawnMonster(1, -7000, -7000, 100) EXCEPT
                         !.position = Vec(-5000, 0, 1000),
                         !.patrolWaypoints = Waypoints(Vec(-7000, 0, -7000))] >>
    /\ gameState = InitialGameState
    /\ tickDelta = 0
    /\ ticks = 0
    /\ raised = FALSE
    /\ treasures = NoTreasure
    /\ rideActive = FALSE
    /\ observed = [i \in 1..Len(monsters) |->
                      [from |-> "patrolling", alert |-> 0, targetDistSq |-> 0, elapsed |-> 0]]

NextFrame ==
    \E c \in FrameControls, deltaTime \in MoveDeltaTimes, time \in FrameTimes :
        animate(c, deltaTime, time.bob, time.sachaBob, time.glance, time.orbit)

SpecFrame == InitFrame /\ [][NextFrame]_vars

(***************************************************************************)
(* Frames next to the Mummy Adventure Cart, 7 units from the first spawn   *)
(* point.                                                                  *)
(***************************************************************************)
\* No key, or the run key alone (which starts a ride and moves nobody).
RideControls ==
    { [forward |-> FALSE, backward |-> FALSE, left |-> FALSE, right |-> FALSE, run |-> FALSE],
      [forward |-> FALSE, backward |-> FALSE, left |-> FALSE, right |-> FALSE, run |-> TRUE] }

\* The player 2 units from the cart, the companion behind her.
InitRide ==
    /\ scenario = "ride"
    /\ obstacles = {}
    /\ mina = [position |-> Vec(-7300, restY, 500), facing |-> [x |-> 0, z |-> 1],
               resolved |-> "init"]
    /\ sacha = createSacha(Vec(-7600, restY, 500))
    /\ onlyPush = FALSE
    /\ monsters = SpawnedMonsters
    /\ gameState = InitialGameState
    /\ tickDelta = 0
    /\ ticks = 0
    /\ raised = FALSE
    /\ treasures = NoTreasure
    /\ rideActive = FALSE
    /\ observed = [i \in 1..Len(monsters) |->
                      [from |-> "patrolling", alert |-> 0, targetDistSq |-> 0, elapsed |-> 0]]

NextRide ==
    \/ \E c \in RideControls, deltaTime \in ContactDeltaTimes, bob \in Bobs,
          sachaBob \in SachaBobs, glance \in BOOLEAN, orbit \in Orbits :
           animate(c, deltaTime, bob, sachaBob, glance, orbit)
    \/ \E stop \in RideStops : endRideExperience(stop)

SpecRide == InitRide /\ [][NextRide]_vars

(***************************************************************************)
(* Last treasures: the player five units from a chest she has not          *)
(* collected, an adversary beside the chest, little health left.           *)
(***************************************************************************)
\* Before Jurassic Park's chest with the chests of the maze, the castle and
\* New York collected; before the place under the Battlestar's chest with
\* every other chest collected.
VictoryStarts ==
    { [mina |-> Vec(-8000, restY, -5500), sacha |-> Vec(-7700, restY, -5300),
       monster |-> Vec(-8100, 0, -6000),
       treasures |-> [k \in 1..totalTreasures |-> k \in {1, 2, 5}]],
      [mina |-> Vec(8000, restY, -7500), sacha |-> Vec(8300, restY, -7300),
       monster |-> Vec(8100, 0, -8000),
       treasures |-> [k \in 1..totalTreasures |-> k \in {1, 2, 4, 5}]] }

\* Health left after earlier contacts: 3.3 and 10 of 100.
VictoryHealths == {60, 180}

InitVictory ==
    /\ scenario = "victory"
    /\ obstacles = {}
    /\ \E start \in VictoryStarts, health \in VictoryHealths :
           /\ mina = [position |-> start.mina, facing |-> [x |-> 0, z |-> 1],
                      resolved |-> "init"]
           /\ sacha = createSacha(start.sacha)
           /\ monsters = << EngagedMonster(1, Vec(-7000, 0, -7000), start.monster, 30) >>
           /\ treasures = start.treasures
           /\ gameState = [InitialGameState EXCEPT
                              !.health = health,
                              !.treasuresFound = Cardinality({k \in 1..totalTreasures :
                                                                 start.treasures[k]})]
    /\ onlyPush = FALSE
    /\ tickDelta = 0
    /\ ticks = 0
    /\ raised = FALSE
    /\ rideActive = FALSE
    /\ observed = [i \in 1..Len(monsters) |->
                      [from |-> "alerted", alert |-> 30, targetDistSq |-> 0, elapsed |-> 0]]

NextVictory ==
    \E c \in FrameControls, deltaTime \in MoveDeltaTimes, time \in FrameTimes :
        animate(c, deltaTime, time.bob, time.sachaBob, time.glance, time.orbit)

SpecVictory == InitVictory /\ [][NextVictory]_vars

(***************************************************************************)
(* Worlds of the movement specification.                                   *)
(***************************************************************************)
\* The obstacle of the box-avoidance scenario: centre (0,0,10), half-extent 5.
BoxWorld == {createBlock(0, 0, 1000, 1000, 1000, 1000)}

\* Two walls meeting in a corner (as the maze walls of lines 926-934), a free
\* standing pillar and a beam overhead (as the gate of line 809).
CornerWorld ==
    { createBlock(450, 800, 0, 300, 1600, 2400),
      createBlock(0, 800, 600, 2400, 1600, 300),
      createBlock(-300, 200, -300, 100, 400, 100),
      createBlock(0, 1800, -200, 3000, 400, 400) }

MoveScenarios ==
    { [name |-> "box",    objs |-> BoxWorld,    start |-> Vec(0, 0, 0)],
      [name |-> "corner", objs |-> CornerWorld, start |-> Vec(0, restY, 0)] }

InitMove ==
    \E s \in MoveScenarios :
        /\ scenario = s.name
        /\ obstacles = s.objs
        /\ mina = [position |-> s.start, facing |-> [x |-> 0, z |-> 1],
                   resolved |-> "init"]
        /\ onlyPush = TRUE
        /\ sacha = createSacha(Vec(-300, restY, s.start.z))
        /\ monsters = << >>
        /\ gameState = InitialGameState
        /\ tickDelta = 0
        /\ ticks = 0
        /\ raised = FALSE
        /\ treasures = NoTreasure
        /\ rideActive = FALSE
        /\ observed = << >>

NextMove ==
    \E c \in Controls, deltaTime \in MoveDeltaTimes, bob \in Bobs :
        updateMinaMovement(c, deltaTime, bob)

SpecMove == InitMove /\ [][NextMove]_vars

(***************************************************************************)
(* Properties of the movement resolution.                                  *)
(***************************************************************************)
\* Geometry of the properties, stated on coordinates: the closed box of
\* extent 0.5 x 1.8 x 0.5 centred at p shares a point with the box b.
Overlaps(p, b) ==
    /\ p.x - 25 <= b.max.x /\ b.min.x <= p.x + 25
    /\ p.y - 90 <= b.max.y /\ b.min.y <= p.y + 90
    /\ p.z - 25 <= b.max.z /\ b.min.z <= p.z + 25

Hits(p) == \E b \in obstacles : Overlaps(p, b)

NoIntent(c) == ~ c.forward /\ ~ c.backward /\ ~ c.left /\ ~ c.right

\* The displacement requested by the controls c over deltaTime.
Requested(c, deltaTime) ==
    LET len == (IF c.run THEN 750 ELSE 500) * deltaTime
        dx  == (IF c.right THEN 1 ELSE 0) - (IF c.left THEN 1 ELSE 0)
        dz  == (IF c.backward THEN 1 ELSE 0) - (IF c.forward THEN 1 ELSE 0)
    IN  Scaled([x |-> dx, z |-> dz], len)

C2_XOnlyFirst ==
    \A c \in Controls, deltaTime \in MoveDeltaTimes, bob \in Bobs :
        LET D == Requested(c, deltaTime)
            r == MinaStep(mina, c, deltaTime, bob, obstacles)
        IN  ( /\ D # Vec(0, 0, 0)
              /\ Hits(Add(mina.position, D))
              /\ ~ Hits(Add(mina.position, Vec(D.x, 0, 0))) )
            => /\ r.position.x = mina.position.x + D.x
               /\ r.position.z = mina.position.z

\* Witness of C2: Mina has slid along X after a rejected full move and now
\* faces along the X axis.
C2_Witness ==
    /\ mina.resolved = "xonly"
    /\ mina.facing.x # 0 /\ mina.facing.z = 0

\* C3 (terminal cases): a diagonal request ends on the Z-only candidate only
\* if the full and the X-only candidates collide and the Z-only candidate is
\* free; when all three candidates collide, X and Z are unchanged.
C3_ZOnlyLastOrStay ==
    \A c \in Controls, deltaTime \in MoveDeltaTimes, bob \in Bobs :
        LET D     == Requested(c, deltaTime)
            P     == mina.position
            r     == MinaStep(mina, c, deltaTime, bob, obstacles)
            fullH == Hits(Add(P, D))
            xH    == Hits(Add(P, Vec(D.x, 0, 0)))
            zH    == Hits(Add(P, Vec(0, 0, D.z)))
        IN  D # Vec(0, 0, 0)
            => /\ ( /\ D.x # 0 /\ D.z # 0
                    /\ r.position.x = P.x
                    /\ r.position.z = P.z + D.z )
                  => (fullH /\ xH /\ ~ zH)
               /\ (fullH /\ xH /\ zH)
                  => (r.position.x = P.x /\ r.position.z = P.z)

\* Witness of C3: a tick has ended in the Z-only slide or with all three
\* candidates rejected.
C3_Witness == mina.resolved \in {"zonly", "blocked"}

\* C4 (box avoidance): with the obstacle centred at (0,0,10) of half-extent
\* 5 and the agent started at the origin, after any number of ticks that each
\* request (0,0,5) the agent's z is at most 4.5 minus its half-extent (0.5 as
\* the text has it, which is the stricter reading of the two).
C4_BoxAvoidance ==
    (scenario = "box" /\ onlyPush) => mina.position.z <= 450 - 50

\* Witness of C4: at least one push tick has run in the box world, and only
\* push ticks.
C4_Witness ==
    /\ scenario = "box" /\ onlyPush
    /\ mina.resolved \notin {"init", "idle"}

\* C5 (zero intent): in every reachable state, a tick with none of
\* forward/backward/left/right active leaves Mina's position and facing
\* unchanged, whatever the elapsed time (so N such ticks do, for every N).
C5_ZeroIntentIdempotent ==
    \A c \in Controls, deltaTime \in MoveDeltaTimes, bob \in Bobs :
        NoIntent(c)
        => LET r == MinaStep(mina, c, deltaTime, bob, obstacles)
           IN  r.position = mina.position /\ r.facing = mina.facing

\* Witness of C5: an idle tick has run after Mina had moved and turned.
C5_Witness ==
    /\ mina.resolved = "idle"
    /\ mina.position.y # 0
    /\ mina.facing # [x |-> 0, z |-> 1]

(***************************************************************************)
(* Properties of the adversary state machine.  They speak about the state  *)
(* an adversary is in between ticks: observed[i].from is the state it      *)
(* started the last tick in, monsters[i].aiState the state it ended in.    *)
(***************************************************************************)
Ticked == ticks > 0

Adversaries == 1..Len(monsters)

\* Bands of the nearest-target distance, in centi-units: chase condition
\* (below 0.8 * 15 = 12, where the line of sight of range 30 always holds),
\* detection (below 15).
InChaseBand(i) == observed[i].targetDistSq < 1200 * 1200

InDetection(i) == observed[i].targetDistSq < 1500 * 1500

\* C6: from every adversary state, a tick in which the nearest-target
\* distance is below detectionRadius * 0.8 and the line of sight holds leaves
\* the adversary chasing.
C6_ChasePromotion ==
    Ticked => \A i \in Adversaries : InChaseBand(i) => monsters[i].aiState = "chasing"

C6_Witness ==
    /\ Ticked
    /\ \E i \in Adversaries :
           /\ observed[i].from \in {"searching", "alerted"}
           /\ InChaseBand(i)
           /\ monsters[i].aiState = "chasing"

\* C7: a patrolling adversary whose nearest target is within detectionRadius
\* but outside the chase condition is alerted after the tick.
C7_PatrolToAlerted ==
    Ticked => \A i \in Adversaries :
        (observed[i].from = "patrolling" /\ InDetection(i) /\ ~ InChaseBand(i))
            => monsters[i].aiState = "alerted"

C7_Witness ==
    /\ Ticked
    /\ \E i \in Adversaries :
           /\ observed[i].from = "patrolling"
           /\ InDetection(i) /\ ~ InChaseBand(i)
           /\ monsters[i].aiState = "alerted"
           /\ monsters[i].lastSeenTarget = Null

C8_WitnessSearching ==
    /\ Ticked
    /\ \E i \in Adversaries :
           /\ observed[i].from = "chasing" /\ ~ InDetection(i)
           /\ monsters[i].aiState = "searching"
           /\ monsters[i].searchTime = 10

C8_WitnessStaysChasing ==
    /\ Ticked
    /\ \E j \in Adversaries :
           /\ observed[j].from = "chasing" /\ InDetection(j) /\ ~ InChaseBand(j)
           /\ monsters[j].aiState = "chasing"

AlertedByLater(i) ==
    /\ monsters[i].aiState = "alerted"
    /\ monsters[i].lastSeenTarget # Null
    /\ monsters[i].alertLevel = 30
    /\ \E j \in Adversaries : j > i /\ monsters[j].aiState \in {"chasing", "alerted"}

C9_WitnessPatrolling ==
    /\ Ticked
    /\ \E i \in Adversaries :
           /\ observed[i].from = "searching" /\ ~ InDetection(i)
           /\ observed[i].elapsed = 15
           /\ tickDelta = 5
           /\ monsters[i].aiState = "patrolling"
           /\ monsters[i].lastSeenTarget = Null

C9_WitnessStillSearching ==
    /\ Ticked
    /\ \E i \in Adversaries :
           /\ observed[i].from = "searching" /\ ~ InDetection(i)
           /\ observed[i].elapsed = 10
           /\ monsters[i].aiState = "searching"

\* The edges of the documented table.
DocumentedEdges ==
    {<<s, "chasing">> : s \in {"patrolling", "alerted", "searching"}}
        \cup {<<"patrolling", "alerted">>, <<"chasing", "searching">>,
              <<"searching", "patrolling">>}

\* C10: every change of an adversary's aiState between consecutive ticks is
\* an edge of the documented table.
C10_Counterexample ==
    Ticked => \A i \in Adversaries :
        observed[i].from # monsters[i].aiState
            => <<observed[i].from, monsters[i].aiState>> \in DocumentedEdges

\* The edge searching -> alerted taken by the decision phase itself.
C10_SearchingToAlerted ==
    /\ Ticked
    /\ \E i \in Adversaries :
           /\ observed[i].from = "searching"
           /\ InDetection(i) /\ ~ InChaseBand(i)
           /\ monsters[i].aiState = "alerted"

(***************************************************************************)
(* Properties of the alert level.                                          *)
(***************************************************************************)
\* C11 as stated: an adversary that starts a tick alerted with its nearest
\* target beyond detectionRadius makes progress towards patrolling in that
\* tick: its alertLevel decays or it is no longer alerted.
C11_Counterexample ==
    Ticked => \A i \in Adversaries :
        (observed[i].from = "alerted" /\ ~ InDetection(i))
            => \/ monsters[i].aiState # "alerted"
               \/ monsters[i].alertLevel < observed[i].alert

\* What the code does instead: such an adversary ends the tick alerted with
\* its alertLevel unchanged, tick after tick.
C11_AlertedPersists ==
    Ticked => \A i \in Adversaries :
        (observed[i].from = "alerted" /\ ~ InDetection(i))
            => /\ monsters[i].aiState = "alerted"
               /\ monsters[i].alertLevel = observed[i].alert

C11_StuckAlerted ==
    /\ ticks >= 3
    /\ \E i \in Adversaries :
           /\ observed[i].from = "alerted" /\ ~ InDetection(i)
           /\ monsters[i].aiState = "alerted"
           /\ monsters[i].alertLevel = observed[i].alert

\* C12: alertLevel never increases over a tick in which the adversary is
\* patrolling before and after, group alerts of other adversaries included.
C12_PatrolAlertNotIncreasing ==
    Ticked => \A i \in Adversaries :
        (observed[i].from = "patrolling" /\ monsters[i].aiState = "patrolling")
            => monsters[i].alertLevel <= observed[i].alert

C12_Witness ==
    /\ Ticked
    /\ \E i \in Adversaries :
           /\ observed[i].from = "patrolling" /\ monsters[i].aiState = "patrolling"
           /\ observed[i].alert > 0
           /\ monsters[i].alertLevel < observed[i].alert
    /\ \E j \in Adversaries : monsters[j].aiState \in {"chasing", "alerted"}

\* C13: alertLevel never decreases over a tick in which the adversary is
\* chasing before and after, inside or outside the chase band.
C13_ChaseAlertNotDecreasing ==
    Ticked => \A i \in Adversaries :
        (observed[i].from = "chasing" /\ monsters[i].aiState = "chasing")
            => monsters[i].alertLevel >= observed[i].alert

C13_Witness ==
    /\ Ticked
    /\ \E i \in Adversaries :
           /\ observed[i].from = "chasing" /\ monsters[i].aiState = "chasing"
           /\ ~ InChaseBand(i)
           /\ observed[i].alert > 0
           /\ monsters[i].alertLevel = observed[i].alert

C13_WitnessRising ==
    /\ Ticked
    /\ \E i \in Adversaries :
           /\ observed[i].from = "chasing" /\ monsters[i].aiState = "chasing"
           /\ InChaseBand(i)
           /\ monsters[i].alertLevel > observed[i].alert

\* C14: the alertLevel of every adversary lies in 0..3 (0..90 in thirtieths).
C14_AlertLevelRange ==
    \A i \in Adversaries : monsters[i].alertLevel >= 0 /\ monsters[i].alertLevel <= 90

C14_Witness ==
    /\ Ticked
    /\ \E i \in Adversaries : monsters[i].alertLevel = 90
    /\ \E j \in Adversaries : monsters[j].alertLevel = 30 /\ monsters[j].aiState = "alerted"

(***************************************************************************)
(* Properties of the companion.                                            *)
(***************************************************************************)
\* Squared horizontal distance between two positions.
HorizontalSq(a, b) == (a.x - b.x) * (a.x - b.x) + (a.z - b.z) * (a.z - b.z)

\* A horizontal translation of magnitude at most len; each component of a
\* displacement is kept to the nearest half world unit, hence the 50.
WithinReach(a, b, len) == HorizontalSq(a, b) <= (len + 50) * (len + 50)

\* C15: from every state and for every elapsed time, a tick of
\* updateSachaMovement with the live distance d to the player translates the
\* companion horizontally by zero when d <= 2.5, by at most walkSpeed * dt
\* when 2.5 < d <= 7.5 and by at most catchupSpeed * dt when d > 7.5,
\* whatever branch ran in the tick before.
C15_CompanionBanding ==
    \A deltaTime \in MoveDeltaTimes, bob \in SachaBobs, glance \in BOOLEAN :
        LET distSq == DistSq(sacha.position, mina.position)
            after  == SachaStep(sacha, mina.position, deltaTime, bob, glance, obstacles)
        IN  IF distSq <= 250 * 250
            THEN HorizontalSq(after.position, sacha.position) = 0
            ELSE IF distSq <= 750 * 750
            THEN WithinReach(after.position, sacha.position, 500 * deltaTime)
            ELSE WithinReach(after.position, sacha.position, 600 * deltaTime)

C15_Witness ==
    /\ scenario = "follow"
    /\ sacha.band = "walk"
    /\ sacha.position.x # -300
    /\ DistSq(sacha.position, mina.position) > 750 * 750

(***************************************************************************)
(* Pack alert.                                                             *)
(***************************************************************************)
NearestSq(m) == Min(DistSq(m.position, mina.position), DistSq(m.position, sacha.position))

NearestTarget(m) ==
    IF DistSq(m.position, mina.position) < DistSq(m.position, sacha.position)
    THEN mina.position ELSE sacha.position

\* A pack before a tick: three adversaries, all patrolling and within 25 units
\* of each other, of which only the one at index k has its nearest target
\* within detectionRadius.
PackReady(k) ==
    /\ Len(monsters) = 3
    /\ \A i \in Adversaries : monsters[i].aiState = "patrolling"
    /\ \A i, j \in Adversaries :
           DistSq(monsters[i].position, monsters[j].position) < 2500 * 2500
    /\ NearestSq(monsters[k]) < 1500 * 1500
    /\ \A j \in Adversaries \ {k} : NearestSq(monsters[j]) >= 1500 * 1500

\* The adversaries after one tick of updateMonsters from the current state.
AfterTick(dt, orbit) ==
    ForEachMonster(1, monsters, gameState, mina.position, sacha.position, dt, orbit).monsters

AllEngaged(ms) == \A j \in 1..Len(ms) : ms[j].aiState \in {"alerted", "chasing"}

BroadcastPosition(k, dt, orbit) ==
    LET m == monsters[k]
    IN  Behave(Decide(m, NearestTarget(m), NearestSq(m), dt), NearestTarget(m), dt, orbit).position

PositionAtBroadcast(j, k, dt) ==
    IF j < k THEN animateMonster(monsterPatrol(monsters[j], dt)).position
    ELSE monsters[j].position

C16_WitnessLeftBehind ==
    /\ ticks = 1
    /\ Len(monsters) = 3
    /\ \E k \in Adversaries :
           /\ InDetection(k)
           /\ \A j \in Adversaries \ {k} : ~ InDetection(j)
    /\ \E j \in Adversaries : monsters[j].aiState = "patrolling"

(***************************************************************************)
(* Contact damage and defeat.  Health is in units of 1/18, so that         *)
(* (10 + alertLevel * 5) * elapsed time is (60 + alert) * time.            *)
(***************************************************************************)
InContactNow(i) == NearestSq(monsters[i]) < 200 * 200

RECURSIVE SumOver(_, _)
SumOver(f, S) ==
    IF S = {} THEN 0
    ELSE LET i == CHOOSE x \in S : TRUE IN f[i] + SumOver(f, S \ {i})

\* The game state and the adversaries after one tick from the current state.
TickFrom(dt, orbit) ==
    ForEachMonster(1, monsters, gameState, mina.position, sacha.position, dt, orbit)

\* C17 as stated: the health lost in a tick is, summed over the adversaries
\* in contact, (10 + alertLevel * 5) * elapsed time with the alertLevel the
\* adversary has when the tick begins; 20 for alertLevel 2 over one second.
C17_Counterexample ==
    \A dt \in ContactDeltaTimes, orbit \in Orbits :
        gameState.health - TickFrom(dt, orbit).gameState.health
            = SumOver([i \in Adversaries |-> (60 + monsters[i].alertLevel) * dt],
                      {i \in Adversaries : InContactNow(i)})

\* C17 amended: the health lost in a tick is, summed over the adversaries in
\* contact, (10 + alertLevel * 5) * elapsed time with the alertLevel the
\* adversary has after the tick has raised it by the elapsed time (up to 3;
\* a patrolling adversary that a group alert reaches earlier in the tick is
\* raised from 1): 25 for an engaged adversary that begins a tick of one
\* second with alertLevel 2, 20 for one that begins it with alertLevel 1.
C17_ContactDamage ==
    \A dt \in ContactDeltaTimes, orbit \in Orbits :
        LET after == TickFrom(dt, orbit)
            lost  == gameState.health - after.gameState.health
            hits  == {i \in Adversaries : InContactNow(i)}
        IN  /\ lost = SumOver([i \in Adversaries |-> (60 + after.monsters[i].alertLevel) * dt],
                              hits)
            /\ \A i \in hits :
                   \/ after.monsters[i].alertLevel = Min(monsters[i].alertLevel + 10 * dt, 90)
                   \/ /\ monsters[i].aiState = "patrolling"
                      /\ after.monsters[i].alertLevel = Min(30 + 10 * dt, 90)
            /\ \A i \in Adversaries :
                   (hits = {i} /\ dt = 3 /\ monsters[i].aiState # "patrolling") =>
                       /\ monsters[i].alertLevel = 60 => lost = 25 * 18
                       /\ monsters[i].alertLevel = 30 => lost = 20 * 18

\* One adversary with alertLevel 2 was in contact for a tick of one second,
\* and the health went from 100 to 75.
C17_Witness ==
    /\ ticks = 1 /\ tickDelta = 3
    /\ \E i \in Adversaries :
           /\ observed[i].alert = 60
           /\ observed[i].targetDistSq < 200 * 200
           /\ \A j \in Adversaries \ {i} : observed[j].targetDistSq >= 200 * 200
    /\ gameState.health = 75 * 18

\* C18: gameState.health is never below 0.
C18_Counterexample == gameState.health >= 0

\* C19: gameOver() is invoked at most once.
C19_Counterexample == gameState.gameOverCalls <= 1

\* Two adversaries in contact in the tick that ends the game.
C19_InvokedTwice ==
    /\ gameState.gameOver
    /\ gameState.gameOverCalls = 2
    /\ \A i \in Adversaries : observed[i].targetDistSq < 200 * 200

(***************************************************************************)
(* C20.  Missing-agent tolerance: a tick run while the player agent (mina) *)
(* or the companion (sacha) has not been created is a no-op for the player *)
(* controller, the companion controller and the adversary update alike:    *)
(* none of them raises, and no agent state changes.  The program does      *)
(* otherwise: updateMonsters has no check for a missing agent, and with an *)
(* adversary spawned it raises a TypeError reading the position of the     *)
(* missing player (line 4753), in every frame.                             *)
(***************************************************************************)
\* The claim as stated, for the part that fails: no frame run without an
\* agent has raised.
C20_Counterexample == (mina = Null \/ sacha = Null) => ~ raised

\* What the code does keep of the claim: in frames run without the player no
\* agent state changes (the player stays missing, the companion and the
\* adversaries stay as they were created), and an exception is raised in
\* every such frame.
C20_AgentsUntouched ==
    mina = Null =>
        /\ sacha = createSacha(Vec(-300, restY, 8000))
        /\ monsters = SpawnedMonsters
        /\ gameState.health = initialHealth
        /\ raised = (ticks > 0)

\* A frame has run without the player and raised.
C20_Raised == mina = Null /\ ticks > 0 /\ raised

(***************************************************************************)
(* Properties of whole frames.                                             *)
(***************************************************************************)
\* A frame in which the updates run: the game is neither over nor won, no
\* exception ends the frame and no ride begins.
FrameRuns ==
    /\ ticks' = ticks + 1
    /\ ~ gameState.gameOver /\ ~ gameState.gameWon
    /\ ~ raised' /\ rideActive' = rideActive

\* The companion's band follows from its distance to the player as she
\* stands after her own update of the same frame.
CompanionAfterPlayer ==
    LET d == DistSq(sacha.position, mina'.position)
    IN  sacha'.band = IF d > 750 * 750 THEN "catchup"
                      ELSE IF d > 250 * 250 THEN "walk" ELSE "idle"

\* The distance of adversary i, where it stands before the frame, to the
\* nearer character as the two stand after their updates of the same frame.
FrameDistSq(i) ==
    Min(DistSq(monsters[i].position, mina'.position),
        DistSq(monsters[i].position, sacha'.position))

FrameTarget(i) ==
    IF DistSq(monsters[i].position, mina'.position) < DistSq(monsters[i].position, sacha'.position)
    THEN mina'.position ELSE sacha'.position

\* An adversary chases after the frame exactly when the updated characters
\* are in its chase band, or in its detection radius while it was chasing.
AdversariesAfterCharacters ==
    \A i \in Adversaries :
        monsters'[i].aiState = "chasing"
            <=> \/ FrameDistSq(i) < 1200 * 1200
                \/ FrameDistSq(i) < 1500 * 1500 /\ monsters[i].aiState = "chasing"

\* Adversary k, patrolling and out of detection, with an adversary earlier in
\* the list that chases in this frame and ends its move within 25 units of k:
\* k runs its own update as alerted, stepping toward its target at 0.6 of its
\* speed instead of patrolling.
AlertedByEarlier(k) ==
    /\ monsters[k].aiState = "patrolling"
    /\ FrameDistSq(k) >= 1500 * 1500
    /\ \E j \in 1..(k - 1) :
           /\ monsters'[j].aiState = "chasing"
           /\ DistSq(monsters'[j].position, monsters[k].position) < 2500 * 2500

LaterSeesEarlier ==
    \A k \in Adversaries :
        AlertedByEarlier(k) =>
            /\ monsters'[k].aiState = "alerted"
            /\ monsters'[k].alertLevel = 30
            /\ monsters'[k].currentWaypoint = monsters[k].currentWaypoint
            /\ LET step == Toward(monsters[k].position, FrameTarget(k),
                                  ((monsters[k].speed * 6) \div 10) * tickDelta')
               IN  /\ monsters'[k].position.x = monsters[k].position.x + step.x
                   /\ monsters'[k].position.z = monsters[k].position.z + step.z

\* The objective check sees the player where her update of the same frame
\* has put her.
ObjectiveAfterPlayer ==
    \A t \in 1..5 :
        treasures'[t] <=> \/ treasures[t]
                          \/ DistSq(mina'.position, TreasureLocations[t]) < 300 * 300

\* C21 (tick ordering): in every frame the updates run in the order player,
\* companion, each adversary in list order, objective check: the companion
\* and every adversary measure their distances to the player's position as
\* updated in the same frame, adversary k sees what adversaries 0..k-1 wrote
\* earlier in the frame, and the treasures are checked against the updated
\* position.
C21_TickOrdering ==
    [][FrameRuns => /\ CompanionAfterPlayer
                    /\ AdversariesAfterCharacters
                    /\ LaterSeesEarlier
                    /\ ObjectiveAfterPlayer]_vars

\* After the first frame: the player has stepped into the chase band of the
\* first adversary, which chases; the second, alerted by the first, has left
\* its place as an alerted adversary; the companion runs to catch up.
C21_Witness ==
    /\ scenario = "approach" /\ ticks = 1
    /\ mina.resolved = "full"
    /\ sacha.band = "catchup"
    /\ monsters[1].aiState = "chasing" /\ observed[1].from = "patrolling"
    /\ monsters[2].aiState = "alerted" /\ observed[2].from = "patrolling"
    /\ monsters[2].position # Vec(-5000, 0, 1000)

\* The first treasure is collected in the frame in which the player reaches it.
C21_WitnessObjective ==
    /\ scenario = "approach" /\ ticks = 1
    /\ mina.resolved = "full"
    /\ treasures[1] /\ gameState.treasuresFound = 1

\* The agents' state the defeat is to freeze.
Frozen ==
    /\ mina'.position = mina.position
    /\ sacha'.position = sacha.position
    /\ \A i \in Adversaries :
           /\ monsters'[i].position = monsters[i].position
           /\ monsters'[i].aiState = monsters[i].aiState
           /\ monsters'[i].alertLevel = monsters[i].alertLevel
    /\ gameState'.health = gameState.health
    /\ gameState'.treasuresFound = gameState.treasuresFound

Defeated == gameState.gameOver /\ gameState.health <= 0

(***************************************************************************)
(* C22.  Terminal defeat: once health has reached zero and the defeat      *)
(* outcome is set, gameOver is never reset, and from then on the player    *)
(* position, the companion position, every adversary's position, state and *)
(* alertLevel, health and the collected-objective count stay unchanged.    *)
(* The program does otherwise: the timer that startRideExperience set      *)
(* (15 s) is not cancelled by the defeat; when it fires,                   *)
(* endRideExperience puts the player and the companion down next to the    *)
(* cart (lines 4176-4189).                                                 *)
(***************************************************************************)
\* The claim as stated: every step taken after the defeat keeps gameOver set
\* and leaves the agents, health and the count as they are.
C22_Counterexample == [][Defeated => gameState'.gameOver /\ Frozen]_vars

\* What the code does keep of the claim: gameOver is never reset, and the
\* frames that animate runs after the defeat change nothing.
C22_FramesBlocked ==
    [][Defeated => /\ gameState'.gameOver
                   /\ (ticks' = ticks + 1 => Frozen)]_vars

\* The defeat has come during a ride, whose timer is still pending.
C22_DefeatedOnRide == Defeated /\ rideActive

(***************************************************************************)
(* Group alerting, one broadcaster at a time.                              *)
(***************************************************************************)
\* The adversaries and the game state when the forEach of a tick reaches the
\* adversary at index i: the adversaries before it have been updated.
RECURSIVE BeforeBody(_, _, _)
BeforeBody(i, dt, orbit) ==
    IF i = 1 THEN [monsters |-> monsters, gameState |-> gameState]
    ELSE LET p == BeforeBody(i - 1, dt, orbit)
         IN  MonsterBody(i - 1, p.monsters, p.gameState, mina.position, sacha.position,
                         dt, orbit)

\* The adversary m after its own decision and move of the tick.
OwnUpdate(m, dt, orbit) ==
    Behave(Decide(m, NearestTarget(m), NearestSq(m), dt), NearestTarget(m), dt, orbit)

\* C23 (group alerting): when an adversary ends its own update chasing or
\* alerted, every other adversary within 25 units of it that is patrolling
\* becomes alerted with lastSeenTarget set to the broadcaster's target
\* position; the broadcaster itself, the adversaries at 25 units or farther
\* and the adversaries that are alerted, chasing or searching are left as
\* they are.
C23_GroupAlerting ==
    \A i \in Adversaries, dt \in AiDeltaTimes, orbit \in Orbits :
        LET pre        == BeforeBody(i, dt, orbit).monsters
            post       == MonsterBody(i, pre, gameState, mina.position, sacha.position,
                                      dt, orbit).monsters
            own        == OwnUpdate(pre[i], dt, orbit)
            broadcasts == own.aiState \in {"chasing", "alerted"}
        IN  /\ broadcasts => /\ post[i].aiState = own.aiState
                              /\ post[i].lastSeenTarget = own.lastSeenTarget
                              /\ post[i].alertLevel = own.alertLevel
            /\ \A k \in Adversaries \ {i} :
                   IF /\ broadcasts
                      /\ DistSq(own.position, pre[k].position) < 2500 * 2500
                      /\ pre[k].aiState = "patrolling"
                   THEN /\ post[k].aiState = "alerted"
                        /\ post[k].lastSeenTarget = NearestTarget(pre[i])
                        /\ post[k].position = pre[k].position
                   ELSE post[k] = pre[k]

\* After a tick: an adversary that began the tick patrolling with no
\* character in its detection radius is alerted and holds the position of a
\* character as lastSeenTarget, handed over by another adversary that chases.
C23_Witness ==
    /\ Ticked
    /\ \E k \in Adversaries :
           /\ observed[k].from = "patrolling" /\ ~ InDetection(k)
           /\ monsters[k].aiState = "alerted"
           /\ monsters[k].lastSeenTarget \in {mina.position, sacha.position}
           /\ \E i \in Adversaries \ {k} : monsters[i].aiState = "chasing"

\* After a tick: one adversary chases while another, farther than 25 units
\* from it, still patrols; and one adversary chases next to one that searches.
C23_WitnessTooFar ==
    /\ Ticked
    /\ \E i, k \in Adversaries :
           /\ monsters[i].aiState = "chasing" /\ monsters[k].aiState = "patrolling"
           /\ observed[k].from = "patrolling"
           /\ DistSq(monsters[i].position, monsters[k].position) >= 2500 * 2500

C23_WitnessSearching ==
    /\ Ticked
    /\ \E i, k \in Adversaries :
           /\ monsters[i].aiState = "chasing" /\ monsters[k].aiState = "searching"
           /\ observed[k].from = "searching"
           /\ DistSq(monsters[i].position, monsters[k].position) < 2500 * 2500

(***************************************************************************)
(* The companion's collision handling.                                     *)
(***************************************************************************)
\* The step length of the companion's band at the current distance.
BandLength(deltaTime) ==
    IF DistSq(sacha.position, mina.position) > 750 * 750
    THEN 600 * deltaTime ELSE 500 * deltaTime

\* The player's resolver applied to the companion's position and the
\* companion's requested movement.
AsPlayer(deltaTime) ==
    Resolve([position |-> sacha.position, facing |-> sacha.facing, resolved |-> "init"],
            Toward(sacha.position, mina.position, BandLength(deltaTime)), obstacles)

\* C24 (companion resolver): in the catch-up band and in the follow band the
\* companion accepts exactly the horizontal displacement (full, X-only, Z-only
\* or none, in that order) that the player's resolver accepts for the same
\* position, movement and obstacles.
C24_SameResolver ==
    \A deltaTime \in MoveDeltaTimes, bob \in SachaBobs, glance \in BOOLEAN :
        LET after == SachaStep(sacha, mina.position, deltaTime, bob, glance, obstacles)
        IN  DistSq(sacha.position, mina.position) > 250 * 250 =>
                /\ after.position.x = AsPlayer(deltaTime).position.x
                /\ after.position.z = AsPlayer(deltaTime).position.z

\* The companion stands where one of its bands falls back to a slide or to
\* no move at all, after having moved there itself.
C24_Witness ==
    /\ scenario = "follow"
    /\ sacha.band \in {"catchup", "walk"}
    /\ DistSq(sacha.position, mina.position) > 250 * 250
    /\ \E deltaTime \in MoveDeltaTimes :
           AsPlayer(deltaTime).resolved \in {"xonly", "zonly", "blocked"}

\* Both slides are free where the full move is not: the order decides.
C24_WitnessOrder ==
    /\ scenario = "follow"
    /\ sacha.band \in {"catchup", "walk"}
    /\ DistSq(sacha.position, mina.position) > 250 * 250
    /\ \E deltaTime \in MoveDeltaTimes :
           LET movement == Toward(sacha.position, mina.position, BandLength(deltaTime))
           IN  /\ AsPlayer(deltaTime).resolved = "xonly"
               /\ movement.x # 0 /\ movement.z # 0
               /\ ~ checkCollision(Add(sacha.position, Vec(0, 0, movement.z)), obstacles)

\* The companion is displaced horizontally by a tick.
Displaced(after) ==
    after.position.x # sacha.position.x \/ after.position.z # sacha.position.z

\* C25 (companion facing), as stated: a companion displaced in a moving band
\* (by a full move or by a slide) faces the target afterwards, and a
\* companion that is not displaced keeps its facing.
C25_Counterexample ==
    \A deltaTime \in MoveDeltaTimes, bob \in SachaBobs, glance \in BOOLEAN :
        LET after == SachaStep(sacha, mina.position, deltaTime, bob, glance, obstacles)
        IN  DistSq(sacha.position, mina.position) > 250 * 250 =>
                IF Displaced(after)
                THEN after.facing = LookDir(Sub(mina.position, after.position))
                ELSE after.facing = sacha.facing

\* What the code does keep: a full move faces the target, a move that is
\* refused leaves the facing alone.
C25_FullMoveFacesTarget ==
    \A deltaTime \in MoveDeltaTimes, bob \in SachaBobs, glance \in BOOLEAN :
        LET after == SachaStep(sacha, mina.position, deltaTime, bob, glance, obstacles)
        IN  DistSq(sacha.position, mina.position) > 250 * 250 =>
                /\ AsPlayer(deltaTime).resolved = "full" /\ Displaced(after) =>
                       after.facing = LookDir(Sub(mina.position, after.position))
                /\ ~ Displaced(after) => after.facing = sacha.facing

(***************************************************************************)
(* The vertical bob.                                                       *)
(***************************************************************************)
\* The last tick of the player was a moving tick: it wrote the bob.
Bobbed == mina.resolved \in {"full", "xonly", "zonly", "blocked"}

\* C26 (bob outside the collision test), as stated: every candidate position
\* of a tick has the un-bobbed vertical coordinate 1.35; the bob of one tick
\* is not carried into the candidates of the next.
C26_Counterexample ==
    \A c \in Controls, deltaTime \in MoveDeltaTimes :
        Bobbed /\ Direction(c) # [x |-> 0, z |-> 0] =>
            \A p \in Candidates(mina, Movement(c, deltaTime)) : p.y = 135

\* What the code does keep: the bob is written after the resolution and does
\* not accumulate; the vertical coordinate stays within 0.03 of 1.35.
C26_BobBounded ==
    /\ Bobbed => mina.position.y \in {132, 138}
    /\ \A c \in Controls, deltaTime \in MoveDeltaTimes, bob \in Bobs :
           LET r == MinaStep(mina, c, deltaTime, bob, obstacles)
           IN  r.resolved # "idle" => r.position.y = 135 + bob

(***************************************************************************)
(* Alert level of engaged adversaries, last-seen target, patrol waypoints.   *)
(***************************************************************************)
\* C27 (alertLevel decays only when disengaged), as stated: an adversary that
\* is chasing or alerted after a tick has an alertLevel not lower than before
\* the tick.
C27_Counterexample ==
    Ticked => \A i \in Adversaries :
        monsters[i].aiState \in {"chasing", "alerted"}
            => monsters[i].alertLevel >= observed[i].alert

\* What the code does keep: the level of an adversary that was alerted
\* before the tick is not lowered by it, whatever state it ends in.
C27_AlertedNotLowered ==
    Ticked => \A i \in Adversaries :
        observed[i].from = "alerted" => monsters[i].alertLevel >= observed[i].alert

\* The ring of an adversary: four waypoints, 15 units from its spawn point.
OnRing(m) ==
    /\ Len(m.patrolWaypoints) = 4
    /\ \A k \in 1..4 : DistSq(m.patrolWaypoints[k], m.spawnPosition) = 1500 * 1500

\* The adversary at index i over one step: its waypoints, once there, stay
\* the same; its index changes only from patrolling, within 3 units of the
\* current waypoint, by one modulo 4 and without a horizontal move.
PatrolStep(i) ==
    /\ monsters[i].patrolWaypoints # << >> =>
           monsters'[i].patrolWaypoints = monsters[i].patrolWaypoints
    /\ ( monsters[i].patrolWaypoints = << >> /\ monsters'[i].patrolWaypoints # << >> ) =>
           monsters[i].aiState = "patrolling" /\ OnRing(monsters'[i])
    /\ monsters'[i].currentWaypoint \in 0..3
    /\ monsters'[i].currentWaypoint # monsters[i].currentWaypoint =>
           /\ monsters[i].aiState = "patrolling"
           /\ DistSq(monsters'[i].patrolWaypoints[monsters[i].currentWaypoint + 1],
                     monsters[i].position) < 300 * 300
           /\ monsters'[i].currentWaypoint = (monsters[i].currentWaypoint + 1) % 4
           /\ monsters'[i].position.x = monsters[i].position.x
           /\ monsters'[i].position.z = monsters[i].position.z

C29_WitnessLastChest ==
    /\ scenario = "victory"
    /\ gameState.gameOver
    /\ gameState.treasuresFound = 4 /\ ~ treasures[3]
    /\ mina.position.x = 8000 /\ mina.position.z = -8000

(***************************************************************************)
(* Last-seen target.                                                       *)
(***************************************************************************)
\* C30 (last-seen target): after every tick a searching or chasing adversary
\* holds a position as lastSeenTarget and a patrolling adversary holds null;
\* and whenever an adversary's decision of a tick leaves it searching, so
\* that monsterSearch runs, lastSeenTarget is a position: a search is given
\* up only on its timer.
C30_LastSeenTarget ==
    /\ \A i \in Adversaries :
           /\ monsters[i].aiState \in {"searching", "chasing"} =>
                  monsters[i].lastSeenTarget # Null
           /\ monsters[i].aiState = "patrolling" => monsters[i].lastSeenTarget = Null
    /\ \A i \in Adversaries, dt \in AiDeltaTimes, orbit \in Orbits :
           LET pre     == BeforeBody(i, dt, orbit).monsters[i]
               decided == Decide(pre, NearestTarget(pre), NearestSq(pre), dt)
           IN  decided.aiState = "searching" =>
                   /\ decided.lastSeenTarget # Null
                   /\ monsterSearch(decided, dt, orbit).aiState = "patrolling"
                          <=> decided.searchTime - dt <= 0

\* A search has been given up on its timer: the adversary is patrolling
\* again and its lastSeenTarget is cleared.
C30_Witness ==
    /\ Ticked
    /\ \E i \in Adversaries :
           /\ observed[i].from = "searching"
           /\ monsters[i].aiState = "patrolling"
           /\ monsters[i].lastSeenTarget = Null

\* An adversary is searching with the position it saw its target at last.
C30_WitnessSearching ==
    /\ Ticked
    /\ \E i \in Adversaries :
           /\ observed[i].from = "searching"
           /\ monsters[i].aiState = "searching"
           /\ monsters[i].lastSeenTarget # Null
           /\ monsters[i].searchTime > 0

====
